---- MODULE Spec2Model ----
(***************************************************************************)
(* AgentX automation core.                                                 *)
(*                                                                         *)
(* Part 1: SmartAutomationEngine (core/automation_engine.py).  One engine, *)
(* one asyncio event loop.  A task runs execute_sequence for one           *)
(* AutomationSequence; tasks are cooperative: a task keeps the processor   *)
(* (cpu) from one await that really suspends to the next, and every other  *)
(* caller (stop_execution, another execute_sequence call) runs only while  *)
(* cpu = 0, i.e. while every task is suspended.                            *)
(***************************************************************************)
EXTENDS Integers, Sequences, FiniteSets, TLC

(***************************************************************************)
(* Bounds of the model.                                                    *)
(***************************************************************************)
MaxActions == 2   \* longest action list of a sequence
MaxRetries == 3   \* largest max_retries in the catalogue
MaxIter == 2      \* iterations of the catalogue's loop action
MaxStops == 1     \* number of stop_execution() calls
WaitLong == 3     \* duration (ticks) of the catalogue's long Wait
ShortTimeout == 1 \* the short global_timeout / action timeout (ticks)
LongTimeout == 30 \* a global_timeout no run of the model exceeds

\* Ticks that one suspension lasts (asyncio.sleep / subprocess I/O).
ThinkTicks == 1
DelayTicks == 1
IOTicks == 1

SeqIds == {1, 2}

\* position cache: capacity of the memory tier, the verification threshold
\* and the cleanup age in ticks, and how far the calls and the clock go
MaxMemoryCache == 2
VerificationThreshold == 2
MaxAgeTicks == 0
MaxCacheTime == 1
MaxStores == 2
MaxFinds == 2

None == "None"

(***************************************************************************)
(* ActionType, ConditionType                                               *)
(***************************************************************************)
TAP == "tap"
WAIT == "wait"
FIND_TEXT == "find_text"
SCROLL == "scroll"
VERIFY == "verify"
LOOP == "loop"
CONDITION == "condition"

TEXT_EXISTS == "text_exists"
TEXT_NOT_EXISTS == "text_not_exists"
SCREEN_CONTAINS == "screen_contains"

\* AutomationCondition(condition_type, negate)
AutomationCondition(ct, neg) == [condition_type |-> ct, negate |-> neg]

\* Optional values: an absent condition, an unset time, no sequence.
NoCondition == AutomationCondition("none", FALSE)
NoTime == -1
NoSequence == 0

\* AutomationAction.  parameters are kept as the fields the bodies read:
\* target (a 'text'/'coordinates'/'condition' parameter is present),
\* duration (Wait), iterations and actions (Loop); pcond is the Condition
\* action's parameters['condition'].
AutomationAction(t, r, to, c, tgt, dur, it, subs, pc0) ==
  [action_type |-> t, max_retries |-> r, timeout |-> to, condition |-> c,
   target |-> tgt, duration |-> dur, iterations |-> it, actions |-> subs,
   pcond |-> pc0]

\* What one capture + OCR + injection pass can observe.
Env == {"no_image", "absent", "present", "present_nofire", "raise"}

(***************************************************************************)
(* Pure parts of the action bodies.                                        *)
(***************************************************************************)
Outcome(ok, err) == [success |-> ok, error |-> err]

\* _evaluate_condition: known types capture the screen (a suspension).
CondSuspends(cond) == cond.condition_type \in {TEXT_EXISTS, TEXT_NOT_EXISTS}

\* _evaluate_condition(condition) on the observation e.
EvaluateCondition(cond, e) ==
  IF CondSuspends(cond) /\ e = "raise" THEN FALSE
  ELSE LET result ==
             CASE cond.condition_type = TEXT_EXISTS ->
                    IF e = "no_image" THEN FALSE ELSE e # "absent"
               [] cond.condition_type = TEXT_NOT_EXISTS ->
                    IF e = "no_image" THEN TRUE ELSE e = "absent"
               [] OTHER -> FALSE
       IN IF cond.negate THEN ~result ELSE result

\* _execute_tap_action after its suspension, on the observation e.
TapOutcome(a, e) ==
  CASE e = "raise" -> Outcome(FALSE, "exception")
    [] e = "no_image" -> Outcome(FALSE, "Failed to capture screen")
    [] a.target = "text" ->
         CASE e = "absent" -> Outcome(FALSE, "Text not found")
           [] e = "present" -> Outcome(TRUE, None)
           [] OTHER -> Outcome(FALSE, "Tap execution failed")
    [] a.target = "coordinates" ->
         IF e = "present_nofire" THEN Outcome(FALSE, "Tap execution failed")
         ELSE Outcome(TRUE, None)
    [] OTHER -> Outcome(FALSE, "No tap target specified")

\* _execute_wait_action: asyncio.sleep(duration), then success.
WaitOutcome(a, e) == Outcome(TRUE, None)

\* _execute_find_text_action (and _execute_verify_action) after capture + OCR.
FindOutcome(a, e) ==
  CASE e = "raise" -> Outcome(FALSE, "exception")
    [] e = "no_image" -> Outcome(FALSE, "Failed to capture screen")
    [] e = "absent" -> Outcome(FALSE, "Text not found")
    [] OTHER -> Outcome(TRUE, None)

\* _execute_condition_action with parameters['condition'] present.
ConditionOutcome(a, e) ==
  LET met == EvaluateCondition(a.pcond, e)
  IN Outcome(met, IF met THEN None ELSE "Condition not met")

\* The body's result when it resumes, by action type.
BodyOutcome(a, e) ==
  CASE a.action_type = TAP -> TapOutcome(a, e)
    [] a.action_type = WAIT -> WaitOutcome(a, e)
    [] a.action_type \in {FIND_TEXT, VERIFY} -> FindOutcome(a, e)
    [] OTHER -> ConditionOutcome(a, e)

\* The body captures the screen (every body but _execute_wait_action).
Captures(a) == a.action_type # WAIT

\* Ticks the body's suspension lasts.
BodyTicks(a) == IF a.action_type = WAIT THEN a.duration ELSE IOTicks

(***************************************************************************)
(* The action lists the model runs.  DefaultTimeout is the dataclass       *)
(* default of AutomationAction.timeout.                                    *)
(***************************************************************************)
DefaultTimeout == 10

Leaf(t, r, to, c, tgt, dur, pc0) == AutomationAction(t, r, to, c, tgt, dur, 0, <<>>, pc0)

GateExists == AutomationCondition(TEXT_EXISTS, FALSE)
GateUnknown == AutomationCondition(SCREEN_CONTAINS, FALSE)

\* create_tap_action(text=...)
TapText == Leaf(TAP, MaxRetries, DefaultTimeout, NoCondition, "text", 0, NoCondition)
\* create_tap_action(coordinates=...)
TapCoord == Leaf(TAP, 1, DefaultTimeout, NoCondition, "coordinates", 0, NoCondition)
\* create_wait_action(WaitLong, timeout=ShortTimeout)
WaitAct == Leaf(WAIT, 1, ShortTimeout, NoCondition, None, WaitLong, NoCondition)
\* create_find_text_action(text, max_retries=2, condition=...)
FindGated == Leaf(FIND_TEXT, 2, DefaultTimeout, GateExists, "text", 0, NoCondition)
\* create_condition_action(TEXT_NOT_EXISTS, text, max_retries=2)
CondAct == Leaf(CONDITION, 2, DefaultTimeout, NoCondition, "condition", 0,
                AutomationCondition(TEXT_NOT_EXISTS, FALSE))
\* AutomationAction(ActionType.SCROLL): no branch of _execute_single_action
ScrollAct == Leaf(SCROLL, 1, DefaultTimeout, NoCondition, None, 0, NoCondition)
\* a tap whose retry budget is empty
TapZero == Leaf(TAP, 0, DefaultTimeout, NoCondition, "coordinates", 0, NoCondition)
\* sub-actions of the loop: max_retries is carried but never read there
SubFind == Leaf(FIND_TEXT, 2, DefaultTimeout, NoCondition, "text", 0, NoCondition)
SubWaitGated == Leaf(WAIT, 2, DefaultTimeout, GateUnknown, None, 1, NoCondition)
\* AutomationAction(ActionType.LOOP, {'iterations': .., 'actions': [..]})
LoopAct == AutomationAction(LOOP, 1, DefaultTimeout, NoCondition, None, 0, MaxIter,
                            <<SubFind, SubWaitGated>>, NoCondition)

\* create_wait_action(1)
WaitShort == Leaf(WAIT, 1, DefaultTimeout, NoCondition, None, 1, NoCondition)

Catalogue == {TapText, WaitAct, FindGated, CondAct, ScrollAct, TapZero, LoopAct}
Followers == {TapCoord, CondAct}

\* The action lists of the first sequence: any action of the catalogue, then
\* up to MaxActions - 1 followers.
RECURSIVE Extend(_, _)
Extend(lists, n) ==
  IF n = 0 THEN lists
  ELSE lists \cup Extend({Append(l, f) : l \in lists, f \in Followers}, n - 1)
ActionLists == Extend({<<a>> : a \in Catalogue}, MaxActions - 1)

\* The action lists a driver runs two at a time.
ConcurrentLists == {<<FindGated, TapCoord>>, <<LoopAct, WaitShort>>, <<TapText, CondAct>>}

\* AutomationSequence.__init__
AutomationSequence(acts, gt) ==
  [actions |-> acts, global_timeout |-> gt, results |-> <<>>,
   start_time |-> NoTime, end_time |-> NoTime]

VARIABLES
  now,               \* time.time(), in ticks
  is_running,        \* SmartAutomationEngine.is_running
  current_sequence,  \* SmartAutomationEngine.current_sequence (a SeqId or NoSequence)
  stats,             \* SmartAutomationEngine.stats
  actions_count,     \* HumanBehaviorEngine.actions_count
  fatigue_multiplier, \* HumanBehaviorEngine.fatigue_multiplier, in hundredths
  seq,               \* the AutomationSequence objects, by SeqId
  pc,                \* position of the task running execute_sequence(seq[s])
  frame,             \* that task's locals
  cpu,               \* the task that holds the event loop, 0 when all are suspended
  wake,              \* when the suspended task's sleep or I/O is over
  stops,             \* stop_execution() calls made so far
  \* history of what each task did, per top-level action index
  calls,             \* _execute_single_action calls made by the retry loop
  bodies,            \* bodies (_execute_*_action) entered for the top-level action
  thinks,            \* apply_thinking_delay calls of the retry loop
  subruns,           \* _execute_single_action calls made by _execute_loop_action
  gate_met,          \* result of the gate in the current _execute_single_action call
  body_in_call,      \* a body was entered in the current _execute_single_action call
  stop_seen,         \* stop_execution() was called while the task was running
  obs                \* what the body of the open call observed, once it resumed

engineVars == <<is_running, current_sequence, stats, actions_count, fatigue_multiplier>>
taskVars == <<seq, pc, frame, cpu, wake>>
histVars == <<calls, bodies, thinks, subruns, gate_met, body_in_call, stop_seen, obs>>

\* IntelligentPositionCache (intelligence/position_cache.py)
VARIABLES
  cache_time,           \* time.time() as the cache reads it, in ticks
  memory_cache,         \* IntelligentPositionCache.memory_cache, in insertion order
  db_cache,             \* rows of the cached_positions table
  connection,           \* PositionCacheDatabase.connection is not None
  current_app_context,  \* IntelligentPositionCache.current_app_context
  cache_stats,          \* IntelligentPositionCache.stats
  found,                \* what the last find_cached_position returned
  cached_count,         \* what the last cache_positions returned
  \* history of the last call
  last_call,            \* the last call of the cache and its arguments
  probed,               \* the entry the last find found, before its verification
  evicted,              \* the evictions of the last call
  stores                \* cache_positions calls made so far

cacheVars == <<cache_time, memory_cache, db_cache, connection, current_app_context,
               cache_stats, found, cached_count, last_call, probed, evicted, stores>>

\* CompleteMobileAgentX (complete_agentx.py): the screen it analysed
VARIABLES
  current_screenshot,   \* CompleteMobileAgentX.current_screenshot
  detected_elements,    \* CompleteMobileAgentX.detected_elements
  matches,              \* what the last smart_element_finder returned
  query,                \* the last smart_element_finder call and its screen height
  queries,              \* smart_element_finder calls made so far
  analyses              \* analyze_screen_with_ai calls made so far

\* DebugMobileAgentX (debug_agentx.py)
VARIABLES
  debug_elements,    \* DebugMobileAgentX.detected_elements
  debug_call,        \* the last call of the debug agent and its arguments
  best               \* what find_text_element returned: <<>> for None

debugVars == <<debug_elements, debug_call, best>>

\* the element finders of both agents
matcherVars == <<current_screenshot, detected_elements, matches, query, queries,
                 analyses, debugVars>>

\* TapCoordinateEngine (core/tap_coordinator.py)
VARIABLES
  tap_clock,              \* time.time() as the tap engine reads it, in ticks
  last_tap_time,          \* TapCoordinateEngine.last_tap_time
  randomization_enabled,  \* TapCoordinateEngine.randomization_enabled
  randomization_radius,   \* TapCoordinateEngine.randomization_radius
  safe_bounds,            \* TapCoordinateEngine.safe_bounds, in hundredths
  tap_result,             \* the TapResult of the last tap_text / tap_coordinate
  tap_call,               \* the last call of the tap engine and its arguments
  handed                  \* the times at which taps were handed to the executor

tapVars == <<tap_clock, last_tap_time, randomization_enabled, randomization_radius,
             safe_bounds, tap_result, tap_call, handed>>

vars == <<now, engineVars, taskVars, stops, histVars, cacheVars, matcherVars, tapVars>>

Zeros == [k \in 1..(MaxActions + 1) |-> 0]

Frame0 ==
  [i |-> 0, attempt |-> 0, start_time |-> 0, last_error |-> None, level |-> 0,
   it |-> 0, j |-> 0, loop_results |-> <<>>, ret |-> Outcome(FALSE, None),
   data |-> <<>>, result |-> <<>>]

\* PIL images and the absent screenshot
Screenshot(w, h) == [present |-> TRUE, width |-> w, height |-> h]
NoScreenshot == [present |-> FALSE, width |-> 0, height |-> 0]

\* CompleteMobileAgentX.__init__
InitAgentObject ==
  /\ debug_elements = <<>>
  /\ debug_call = [op |-> "init"]
  /\ best = <<>>
  /\ current_screenshot = NoScreenshot
  /\ detected_elements = <<>>
  /\ matches = <<>>
  /\ query = [op |-> "init"]
  /\ queries = 0
  /\ analyses = 0

\* TapCoordinateEngine.__init__: min_tap_interval, in ticks of a quarter second
MinTapInterval == 2

\* TapCoordinateEngine.__init__: randomization_radius, and safe_bounds in
\* hundredths of the screen
RandomizationRadius == 5
SafeLeft == 5
SafeRight == 95
SafeTop == 10
SafeBottom == 90

\* TapCoordinateEngine.__init__; the clock is far from 0, as time.time() is
InitTapObject ==
  /\ tap_clock = MinTapInterval
  /\ last_tap_time = 0
  /\ randomization_enabled = TRUE
  /\ randomization_radius = RandomizationRadius
  /\ safe_bounds = [left |-> SafeLeft, right |-> SafeRight, top |-> SafeTop,
                    bottom |-> SafeBottom]
  /\ tap_result = <<>>
  /\ tap_call = [op |-> "init"]
  /\ handed = <<>>

\* IntelligentPositionCache.__init__ with a new database file;
\* _initialize_database leaves connection None when the file cannot be opened.
InitCacheObject(conn) ==
  /\ cache_time = VerificationThreshold
  /\ memory_cache = <<>>
  /\ db_cache = {}
  /\ connection = conn
  /\ current_app_context = ""
  /\ cache_stats = [total_requests |-> 0, cache_hits |-> 0, cache_misses |-> 0]
  /\ found = <<>>
  /\ cached_count = 0
  /\ last_call = [op |-> "init"]
  /\ probed = <<>>
  /\ evicted = {}
  /\ stores = 0

\* SmartAutomationEngine.__init__, before any sequence is built.
InitEngineObject ==
  /\ now = 0
  /\ is_running = FALSE
  /\ current_sequence = NoSequence
  /\ stats = [total_actions |-> 0, successful_actions |-> 0, failed_actions |-> 0,
              total_execution_time |-> 0]
  /\ actions_count = 0
  /\ fatigue_multiplier = 100
  /\ pc = [s \in SeqIds |-> "idle"]
  /\ frame = [s \in SeqIds |-> Frame0]
  /\ cpu = 0
  /\ wake = [s \in SeqIds |-> 0]
  /\ stops = 0
  /\ calls = [s \in SeqIds |-> Zeros]
  /\ bodies = [s \in SeqIds |-> Zeros]
  /\ thinks = [s \in SeqIds |-> Zeros]
  /\ subruns = [s \in SeqIds |-> Zeros]
  /\ gate_met = [s \in SeqIds |-> "unset"]
  /\ body_in_call = [s \in SeqIds |-> FALSE]
  /\ stop_seen = [s \in SeqIds |-> FALSE]
  /\ obs = [s \in SeqIds |-> "none"]

\* The engine of a connector, and the connector's position cache.
InitEngine ==
  /\ InitCacheObject(TRUE)
  /\ InitAgentObject
  /\ InitTapObject
  /\ InitEngineObject

\* The engine and the sequences its caller built.
Init ==
  /\ InitEngine
  /\ \E acts \in ActionLists, gt \in {ShortTimeout, LongTimeout} :
       seq = [s \in SeqIds |->
                IF s = 1 THEN AutomationSequence(acts, gt)
                ELSE AutomationSequence(<<WaitShort>>, LongTimeout)]

(***************************************************************************)
(* Helpers over the state.                                                 *)
(***************************************************************************)
Running(s) == pc[s] \notin {"idle", "done"}

\* the top-level action the task is at, and the action whose
\* _execute_single_action call is open (a sub-action inside a loop)
Top(s) == seq[s].actions[frame[s].i]
Cur(s) == IF frame[s].level = 0 THEN Top(s) ELSE Top(s).actions[frame[s].j]

Bump(h, s, k) == [h EXCEPT ![s][k] = @ + 1]

\* The task is suspended in an await: the event loop resumes the task whose
\* sleep or I/O ends first, at that time.
Suspended(s) == cpu = 0 /\ pc[s] \in {"think", "gate", "body", "delay"}
Resume(s) ==
  /\ Suspended(s)
  /\ \A t \in SeqIds : Suspended(t) => wake[s] <= wake[t]
  /\ now' = wake[s]
\* await of a sleep or I/O that lasts d ticks
Sleep(s, d) == wake' = [wake EXCEPT ![s] = now + d]

\* the loop variable is not advanced
NextIndexStay(i) == i

\* execute_sequence line 177: enumerate(sequence.actions) steps to the next action
NextIndex(i) == i + 1

\* the global timeout is never noticed
GlobalTimeoutNever(s) == FALSE

\* execute_sequence line 183-184: elapsed > sequence.global_timeout
GlobalTimeoutReached(s) == now - seq[s].start_time > seq[s].global_timeout

\* every failed action is critical
CriticalFailureAny(result, a) == ~result.success

\* execute_sequence line 207: not result.success and type in [CONDITION]
CriticalFailure(result, a) == ~result.success /\ a.action_type \in {CONDITION}

\* one attempt too many
BudgetExhaustedLate(a, attempt) == attempt > a.max_retries

\* _execute_action_with_retries line 223: range(action.max_retries) is used up
BudgetExhausted(a, attempt) == attempt >= a.max_retries

\* the delay is applied before the first attempt too
ThinkBeforeAlways(attempt) == attempt >= 0

\* _execute_action_with_retries line 226: if attempt > 0
ThinkBefore(attempt) == attempt > 0

\* the gate's result is ignored
GateBlocksNever(met) == FALSE

\* _execute_single_action line 266: if not condition_met
GateBlocks(met) == ~met

\* the loop succeeds only if every sub-action did
LoopSuccessAll(loop_results) ==
  \A m \in 1..Len(loop_results) : loop_results[m].success

\* _execute_loop_action line 382: return True, ...
LoopSuccess(loop_results) == TRUE

\* _execute_loop_action line 366: range(iterations) is used up
IterationsDone(a, it) == it >= a.iterations

\* AutomationResult
AutomationResult(ok, a, idx, t, n, err, d) ==
  [success |-> ok, action |-> a, index |-> idx, execution_time |-> t,
   attempts |-> n, error_message |-> err, data |-> d]

\* execute_sequence lines 211-216: the finally block and the return
Finish(s, t) ==
  /\ seq' = [seq EXCEPT ![s].end_time = t]
  /\ is_running' = FALSE
  /\ pc' = [pc EXCEPT ![s] = "done"]
  /\ cpu' = 0

\* failed results are not counted
CountResultSuccessOnly(st, result) ==
  [total_actions |-> st.total_actions + 1,
   successful_actions |-> st.successful_actions + (IF result.success THEN 1 ELSE 0),
   failed_actions |-> st.failed_actions,
   total_execution_time |-> st.total_execution_time + result.execution_time]

\* HumanBehaviorEngine.__init__ line 104, and the slope 0.02 of line 136 in
\* hundredths
FatigueThreshold == 50
FatigueStep == 2

\* the multiplier is never raised
FatigueMultiplierFlat(n, old) == old

\* update_fatigue lines 133-136: the multiplier after the n-th action, in
\* hundredths (1.0 is 100); it is assigned only above the threshold
FatigueMultiplier(n, old) ==
  IF n > FatigueThreshold THEN 100 + (n - FatigueThreshold) * FatigueStep ELSE old

\* execute_sequence lines 193-200: the statistics after one more result
CountResult(st, result) ==
  [total_actions |-> st.total_actions + 1,
   successful_actions |-> st.successful_actions + (IF result.success THEN 1 ELSE 0),
   failed_actions |-> st.failed_actions + (IF result.success THEN 0 ELSE 1),
   total_execution_time |-> st.total_execution_time + result.execution_time]

\* execute_sequence lines 192-204: append the result, update the statistics
\* and the fatigue, and suspend in apply_action_delay
Record(s, result) ==
  /\ seq' = [seq EXCEPT ![s].results = Append(@, result)]
  /\ stats' = CountResult(stats, result)
  /\ actions_count' = actions_count + 1
  /\ fatigue_multiplier' = FatigueMultiplier(actions_count + 1, fatigue_multiplier)
  /\ frame' = [frame EXCEPT ![s].result = <<result>>]
  /\ pc' = [pc EXCEPT ![s] = "delay"]
  /\ Sleep(s, DelayTicks)
  /\ cpu' = 0

(***************************************************************************)
(* execute_sequence, one step per stretch of code between suspensions.     *)
(***************************************************************************)
\* execute_sequence lines 170-174: the call, up to the first loop test
Call(s) ==
  /\ UNCHANGED <<cacheVars, matcherVars, tapVars>>
  /\ pc[s] = "idle" /\ cpu = 0
  /\ is_running' = TRUE
  /\ current_sequence' = s
  /\ seq' = [seq EXCEPT ![s].start_time = now]
  /\ frame' = [frame EXCEPT ![s].i = 1]
  /\ pc' = [pc EXCEPT ![s] = "loop"]
  /\ cpu' = s
  /\ UNCHANGED <<now, stats, actions_count, fatigue_multiplier, wake, stops, histVars>>

\* execute_sequence lines 177-191: next action of the list, the stop test,
\* the global timeout test, entry of _execute_action_with_retries
LoopTop(s) ==
  /\ UNCHANGED <<cacheVars, matcherVars, tapVars>>
  /\ pc[s] = "loop" /\ cpu = s
  /\ IF \/ frame[s].i > Len(seq[s].actions)
        \/ ~is_running
        \/ GlobalTimeoutReached(s)
     THEN /\ Finish(s, now)
          /\ UNCHANGED frame
     ELSE /\ frame' = [frame EXCEPT ![s].attempt = 0, ![s].start_time = now,
                                     ![s].last_error = None]
          /\ pc' = [pc EXCEPT ![s] = "retry"]
          /\ UNCHANGED <<seq, is_running, cpu>>
  /\ UNCHANGED <<now, current_sequence, stats, actions_count, fatigue_multiplier, wake, stops, histVars>>

\* _execute_action_with_retries lines 223-227 and 250-258: the head of the
\* retry loop, and the result when every attempt failed
Retry(s) ==
  /\ UNCHANGED <<cacheVars, matcherVars, tapVars>>
  /\ pc[s] = "retry" /\ cpu = s
  /\ LET f == frame[s] a == Top(s) IN
     IF BudgetExhausted(a, f.attempt)
     THEN /\ Record(s, AutomationResult(FALSE, a, f.i, now - f.start_time,
                                        a.max_retries, f.last_error, <<>>))
          /\ UNCHANGED <<thinks>>
     ELSE /\ IF ThinkBefore(f.attempt)
             THEN /\ pc' = [pc EXCEPT ![s] = "think"]
                  /\ Sleep(s, ThinkTicks)
                  /\ cpu' = 0
                  /\ thinks' = Bump(thinks, s, f.i)
             ELSE /\ pc' = [pc EXCEPT ![s] = "single"]
                  /\ UNCHANGED <<cpu, wake, thinks>>
          /\ UNCHANGED <<seq, stats, actions_count, fatigue_multiplier, frame>>
  /\ UNCHANGED <<now, is_running, current_sequence, stops, calls, bodies,
                 subruns, gate_met, body_in_call, stop_seen, obs>>

\* HumanBehaviorEngine.apply_thinking_delay: asyncio.sleep returns
Think(s) ==
  /\ UNCHANGED <<cacheVars, matcherVars, tapVars>>
  /\ pc[s] = "think" /\ Resume(s)
  /\ pc' = [pc EXCEPT ![s] = "single"]
  /\ cpu' = s
  /\ UNCHANGED <<engineVars, seq, frame, wake, stops, histVars>>

\* _execute_single_action lines 260-265: entry, and the gate if there is one
Single(s) ==
  /\ UNCHANGED <<cacheVars, matcherVars, tapVars>>
  /\ pc[s] = "single" /\ cpu = s
  /\ LET f == frame[s] a == Cur(s) IN
     /\ IF f.level = 0
        THEN calls' = Bump(calls, s, f.i) /\ UNCHANGED subruns
        ELSE subruns' = Bump(subruns, s, f.i) /\ UNCHANGED calls
     /\ gate_met' = [gate_met EXCEPT ![s] = "unset"]
     /\ body_in_call' = [body_in_call EXCEPT ![s] = FALSE]
     /\ IF a.condition # NoCondition
        THEN /\ pc' = [pc EXCEPT ![s] = "gate"]
             /\ IF CondSuspends(a.condition)
                THEN cpu' = 0 /\ Sleep(s, IOTicks)
                ELSE UNCHANGED <<cpu, wake>>
        ELSE /\ pc' = [pc EXCEPT ![s] = "dispatch"]
             /\ UNCHANGED <<cpu, wake>>
  /\ UNCHANGED <<now, engineVars, seq, frame, stops, bodies, thinks, stop_seen, obs>>

\* _execute_single_action lines 265-267: _evaluate_condition returns
Gate(s) ==
  /\ UNCHANGED <<cacheVars, matcherVars, tapVars>>
  /\ pc[s] = "gate"
  /\ LET c == Cur(s).condition IN
     /\ IF CondSuspends(c) THEN Resume(s) ELSE cpu = s /\ UNCHANGED now
     /\ \E e \in Env :
          LET met == EvaluateCondition(c, e) IN
          /\ gate_met' = [gate_met EXCEPT ![s] = IF met THEN "met" ELSE "unmet"]
          /\ IF GateBlocks(met)
             THEN /\ frame' = [frame EXCEPT
                                 ![s].ret = Outcome(FALSE, "Action condition not met"),
                                 ![s].data = <<>>]
                  /\ pc' = [pc EXCEPT ![s] = "ret"]
             ELSE /\ pc' = [pc EXCEPT ![s] = "dispatch"]
                  /\ UNCHANGED frame
  /\ cpu' = s
  /\ UNCHANGED <<engineVars, seq, wake, stops, calls, bodies, thinks, subruns,
                 body_in_call, stop_seen, obs>>

\* A body is entered for the open _execute_single_action call.
EnterBody(s) ==
  /\ body_in_call' = [body_in_call EXCEPT ![s] = TRUE]
  /\ IF frame[s].level = 0
     THEN bodies' = Bump(bodies, s, frame[s].i)
     ELSE UNCHANGED bodies

\* the body returns without suspending
ReturnNow(s, out) ==
  /\ frame' = [frame EXCEPT ![s].ret = out, ![s].data = <<>>]
  /\ pc' = [pc EXCEPT ![s] = "ret"]
  /\ UNCHANGED <<cpu, wake>>

\* the body suspends (capture, OCR, tap timing, asyncio.sleep)
Suspend(s) ==
  /\ pc' = [pc EXCEPT ![s] = "body"]
  /\ Sleep(s, BodyTicks(Cur(s)))
  /\ cpu' = 0
  /\ UNCHANGED frame

\* _execute_single_action lines 270-283: the dispatch on action_type, and the
\* part of the body that runs before its first suspension
Dispatch(s) ==
  /\ UNCHANGED <<cacheVars, matcherVars, tapVars>>
  /\ pc[s] = "dispatch" /\ cpu = s
  /\ LET a == Cur(s) IN
     CASE a.action_type \in {TAP, WAIT} ->
            EnterBody(s) /\ Suspend(s)
       [] a.action_type \in {FIND_TEXT, VERIFY} ->
            /\ EnterBody(s)
            /\ IF a.target = None
               THEN ReturnNow(s, Outcome(FALSE, "No text specified to find"))
               ELSE Suspend(s)
       [] a.action_type = CONDITION ->
            /\ EnterBody(s)
            /\ IF a.pcond = NoCondition
               THEN ReturnNow(s, Outcome(FALSE, "No condition specified"))
               ELSE IF CondSuspends(a.pcond)
                    THEN Suspend(s)
                    ELSE ReturnNow(s, ConditionOutcome(a, "absent"))
       [] a.action_type = LOOP ->
            /\ EnterBody(s)
            /\ frame' = [frame EXCEPT ![s].level = 1, ![s].it = 0, ![s].j = 1,
                                      ![s].loop_results = <<>>]
            /\ pc' = [pc EXCEPT ![s] = "loopstep"]
            /\ UNCHANGED <<cpu, wake>>
       [] OTHER ->
            /\ ReturnNow(s, Outcome(FALSE, "Unknown action type"))
            /\ UNCHANGED <<bodies, body_in_call>>
  /\ UNCHANGED <<now, engineVars, seq, stops, calls, thinks, subruns, gate_met,
                 stop_seen, obs>>

\* _execute_tap_action / _execute_wait_action / _execute_find_text_action /
\* _execute_condition_action: the suspended body resumes and returns
Body(s) ==
  /\ UNCHANGED <<cacheVars, matcherVars, tapVars>>
  /\ pc[s] = "body" /\ Resume(s)
  /\ \E e \in Env :
       /\ frame' = [frame EXCEPT ![s].ret = BodyOutcome(Cur(s), e), ![s].data = <<>>]
       /\ obs' = [obs EXCEPT ![s] = IF Captures(Cur(s)) THEN e ELSE "none"]
  /\ pc' = [pc EXCEPT ![s] = "ret"]
  /\ cpu' = s
  /\ UNCHANGED <<engineVars, seq, wake, stops, calls, bodies, thinks, subruns,
                 gate_met, body_in_call, stop_seen>>

\* _execute_loop_action lines 366-369 and 382: the two for loops and the return
LoopStep(s) ==
  /\ UNCHANGED <<cacheVars, matcherVars, tapVars>>
  /\ pc[s] = "loopstep" /\ cpu = s
  /\ LET f == frame[s] a == Top(s) IN
     IF IterationsDone(a, f.it)
     THEN /\ frame' = [frame EXCEPT
                         ![s].ret = Outcome(LoopSuccess(f.loop_results), None),
                         ![s].data = f.loop_results, ![s].level = 0]
          /\ pc' = [pc EXCEPT ![s] = "ret"]
     ELSE IF f.j > Len(a.actions)
          THEN /\ frame' = [frame EXCEPT ![s].it = @ + 1, ![s].j = 1]
               /\ UNCHANGED pc
          ELSE /\ pc' = [pc EXCEPT ![s] = "single"]
               /\ UNCHANGED frame
  /\ UNCHANGED <<now, engineVars, seq, cpu, wake, stops, histVars>>

\* the sub-action's outcome is counted as an action of the sequence
LoopCollectCounted(s) ==
  /\ frame' = [frame EXCEPT
                 ![s].loop_results =
                    Append(@, [iteration |-> frame[s].it + 1, sub |-> frame[s].j,
                               success |-> frame[s].ret.success,
                               error |-> frame[s].ret.error]),
                 ![s].j = @ + 1]
  /\ pc' = [pc EXCEPT ![s] = "loopstep"]
  /\ actions_count' = actions_count + 1
  /\ fatigue_multiplier' = FatigueMultiplier(actions_count + 1, fatigue_multiplier)
  /\ UNCHANGED <<seq, stats, cpu, wake>>

\* _execute_loop_action lines 370-380: the sub-action's outcome is appended
\* to loop_results, whatever it is, and the inner loop goes on
LoopCollect(s) ==
  /\ frame' = [frame EXCEPT
                 ![s].loop_results =
                    Append(@, [iteration |-> frame[s].it + 1, sub |-> frame[s].j,
                               success |-> frame[s].ret.success,
                               error |-> frame[s].ret.error]),
                 ![s].j = @ + 1]
  /\ pc' = [pc EXCEPT ![s] = "loopstep"]
  /\ UNCHANGED <<seq, stats, actions_count, fatigue_multiplier, cpu, wake>>

\* _execute_single_action has returned frame[s].ret: to _execute_loop_action
\* (lines 370-380) or to _execute_action_with_retries (lines 230-244)
Ret(s) ==
  /\ UNCHANGED <<cacheVars, matcherVars, tapVars>>
  /\ pc[s] = "ret" /\ cpu = s
  /\ LET f == frame[s] IN
     IF f.level = 1
     THEN LoopCollect(s)
     ELSE IF f.ret.success
          THEN Record(s, AutomationResult(TRUE, Top(s), f.i, now - f.start_time,
                                          f.attempt + 1, None, f.data))
          ELSE /\ frame' = [frame EXCEPT ![s].last_error = f.ret.error,
                                          ![s].attempt = @ + 1]
               /\ pc' = [pc EXCEPT ![s] = "retry"]
               /\ UNCHANGED <<seq, stats, actions_count, fatigue_multiplier, cpu, wake>>
  /\ gate_met' = [gate_met EXCEPT ![s] = "unset"]
  /\ obs' = [obs EXCEPT ![s] = "none"]
  /\ UNCHANGED <<now, is_running, current_sequence, stops, calls, bodies, thinks,
                 subruns, body_in_call, stop_seen>>

\* execute_sequence lines 204-209: apply_action_delay returns, then the
\* critical-failure test and the step to the next action
Delay(s) ==
  /\ UNCHANGED <<cacheVars, matcherVars, tapVars>>
  /\ pc[s] = "delay" /\ Resume(s)
  /\ IF CriticalFailure(frame[s].result[1], Top(s))
     THEN /\ Finish(s, wake[s])
          /\ UNCHANGED frame
     ELSE /\ frame' = [frame EXCEPT ![s].i = NextIndex(@)]
          /\ pc' = [pc EXCEPT ![s] = "loop"]
          /\ cpu' = s
          /\ UNCHANGED <<seq, is_running>>
  /\ UNCHANGED <<current_sequence, stats, actions_count, fatigue_multiplier, wake, stops, histVars>>

\* stop_execution, called by another task or callback of the event loop
StopExecution ==
  /\ UNCHANGED <<cacheVars, matcherVars, tapVars>>
  /\ cpu = 0 /\ stops < MaxStops
  /\ is_running' = FALSE
  /\ stops' = stops + 1
  /\ stop_seen' = [s \in SeqIds |-> stop_seen[s] \/ Running(s)]
  /\ UNCHANGED <<now, current_sequence, stats, actions_count, fatigue_multiplier, taskVars, calls,
                 bodies, thinks, subruns, gate_met, body_in_call, obs>>

\* A driver that awaits each execute_sequence before it calls the next one.
CallInTurn(s) ==
  /\ \A t \in SeqIds : ~Running(t)
  /\ Call(s)

Next ==
  \/ \E s \in SeqIds : CallInTurn(s)
  \/ \E s \in SeqIds : LoopTop(s)
  \/ \E s \in SeqIds : Retry(s)
  \/ \E s \in SeqIds : Think(s)
  \/ \E s \in SeqIds : Single(s)
  \/ \E s \in SeqIds : Gate(s)
  \/ \E s \in SeqIds : Dispatch(s)
  \/ \E s \in SeqIds : Body(s)
  \/ \E s \in SeqIds : LoopStep(s)
  \/ \E s \in SeqIds : Ret(s)
  \/ \E s \in SeqIds : Delay(s)
  \/ StopExecution

Spec == Init /\ [][Next]_vars

\* A driver that runs execute_sequence calls as concurrent tasks of one event
\* loop (asyncio.gather / create_task) on the same engine.
InitConcurrent ==
  /\ InitEngine
  /\ \E acts \in ConcurrentLists :
       seq = [s \in SeqIds |->
                IF s = 1 THEN AutomationSequence(acts, LongTimeout)
                ELSE AutomationSequence(<<WaitShort>>, LongTimeout)]

NextConcurrent ==
  \/ \E s \in SeqIds : Call(s)
  \/ \E s \in SeqIds : LoopTop(s)
  \/ \E s \in SeqIds : Retry(s)
  \/ \E s \in SeqIds : Think(s)
  \/ \E s \in SeqIds : Single(s)
  \/ \E s \in SeqIds : Gate(s)
  \/ \E s \in SeqIds : Dispatch(s)
  \/ \E s \in SeqIds : Body(s)
  \/ \E s \in SeqIds : LoopStep(s)
  \/ \E s \in SeqIds : Ret(s)
  \/ \E s \in SeqIds : Delay(s)
  \/ StopExecution

SpecConcurrent == InitConcurrent /\ [][NextConcurrent]_vars

\* Types and the scheduling discipline of the model.
TypeOK ==
  /\ cpu \in {0} \cup SeqIds
  /\ \A s \in SeqIds :
       /\ pc[s] \in {"idle", "loop", "retry", "think", "single", "gate", "dispatch",
                     "body", "loopstep", "ret", "delay", "done"}
       /\ (cpu = s) => pc[s] \in {"loop", "retry", "single", "gate", "dispatch",
                                   "loopstep", "ret"}
       /\ (cpu = 0) => pc[s] \in {"idle", "think", "gate", "body", "delay", "done"}

(***************************************************************************)
(* Properties of the automation engine.                                    *)
(***************************************************************************)
InAction == {"retry", "think", "single", "gate", "dispatch", "body", "loopstep", "ret"}

\* number of actions of the sequence whose execution has begun
Started(s) == Len(seq[s].results) + (IF pc[s] \in InAction THEN 1 ELSE 0)

Elapsed(s) == now - seq[s].start_time

LastResult(s) == seq[s].results[Len(seq[s].results)]

IsPrefix(p, q) == Len(p) <= Len(q) /\ \A k \in 1..Len(p) : p[k] = q[k]

\* C1: retry state machine.  Every recorded result has as many attempts as
\* _execute_single_action was called for its action, never more than
\* max_retries, and the count no longer changes once the result is recorded;
\* a failed result has attempts = max_retries, a successful one has
\* attempts = k >= 1 where the k-th call is the one that returned success;
\* while an action is in flight the calls made equal the failed attempts
\* (plus the open call).
C1_RetryStateMachine ==
  \A s \in SeqIds :
    /\ \A k \in 1..Len(seq[s].results) :
         LET r == seq[s].results[k] IN
         /\ calls[s][k] = r.attempts
         /\ r.attempts <= r.action.max_retries
         /\ ~r.success => r.attempts = r.action.max_retries
         /\ r.success => r.attempts >= 1
    /\ pc[s] = "delay" =>
         /\ frame[s].result = <<LastResult(s)>>
         /\ LastResult(s).success = frame[s].ret.success
         /\ LastResult(s).success => LastResult(s).attempts = frame[s].attempt + 1
         /\ ~LastResult(s).success => frame[s].attempt = LastResult(s).action.max_retries
    /\ pc[s] \in InAction =>
         /\ frame[s].attempt <= Top(s).max_retries
         /\ calls[s][frame[s].i] =
              frame[s].attempt +
                (IF pc[s] \in {"retry", "think"} \/ (pc[s] = "single" /\ frame[s].level = 0)
                 THEN 0 ELSE 1)

\* an action with max_retries = MaxRetries failed MaxRetries times
C1_Witness ==
  \E s \in SeqIds : \E k \in 1..Len(seq[s].results) :
    LET r == seq[s].results[k] IN
    /\ r.action.max_retries = MaxRetries /\ MaxRetries >= 3
    /\ ~r.success /\ r.attempts = MaxRetries /\ calls[s][k] = MaxRetries

\* C2: global timeout.  Once the time since the sequence's start exceeds
\* global_timeout, no further action of the sequence is started and no
\* result is added for one; at the next loop test the sequence ends with
\* the results it has.
C2_GlobalTimeout ==
  [][\A s \in SeqIds :
       (Running(s) /\ Elapsed(s) > seq[s].global_timeout) =>
         /\ Started(s)' = Started(s)
         /\ (pc[s] = "loop" /\ cpu = s) =>
              (pc'[s] = "done" /\ seq'[s].results = seq[s].results)]_vars

\* global_timeout = ShortTimeout, a long Wait first: the sequence is over,
\* the Wait is its only result and the later actions were never attempted
C2_Witness ==
  /\ pc[1] = "done" /\ stops = 0
  /\ seq[1].global_timeout = ShortTimeout
  /\ seq[1].actions[1] = WaitAct /\ Len(seq[1].actions) > 1
  /\ Len(seq[1].results) = 1 /\ seq[1].results[1].success
  /\ calls[1][2] = 0

\* C3: critical versus soft failure.  When the delay after a failed action
\* is over, the sequence ends there if and only if the action's type is
\* CONDITION; a failed CONDITION result is the last result of its sequence;
\* and a sequence that ended before its list was used up, without a stop,
\* within its global timeout and with no other sequence called on the
\* engine, ended on a failed CONDITION action.
C3_CriticalOnlyCondition ==
  /\ [](\A s \in SeqIds :
         /\ \A k \in 1..Len(seq[s].results) :
              LET r == seq[s].results[k] IN
              (~r.success /\ r.action.action_type = CONDITION) =>
                (k = Len(seq[s].results) /\ pc[s] \in {"delay", "done"})
         /\ ( /\ pc[s] = "done" /\ stops = 0
              /\ \A t \in SeqIds \ {s} : pc[t] = "idle"
              /\ seq[s].end_time - seq[s].start_time <= seq[s].global_timeout
              /\ Len(seq[s].results) < Len(seq[s].actions) ) =>
                ( /\ Len(seq[s].results) > 0
                  /\ ~LastResult(s).success
                  /\ LastResult(s).action.action_type = CONDITION ))
  /\ [][\A s \in SeqIds :
          (pc[s] = "delay" /\ pc'[s] # "delay" /\ ~LastResult(s).success) =>
            /\ (pc'[s] = "done") <=> (LastResult(s).action.action_type = CONDITION)
            /\ (pc'[s] # "done") =>
                 (pc'[s] = "loop" /\ frame'[s].i = Len(seq[s].results) + 1)]_vars

\* a failed non-CONDITION action was followed by a second result
C3_Witness ==
  \E s \in SeqIds :
    /\ Len(seq[s].results) = 2
    /\ ~seq[s].results[1].success
    /\ seq[s].results[1].action.action_type \in {TAP, FIND_TEXT, SCROLL}

\* C4: strict ordering.  The results are those of a prefix of the action
\* list, in list order, and an action is in flight only when every action
\* before it has its result.
C4_ResultsPrefix ==
  \A s \in SeqIds :
    /\ Len(seq[s].results) <= Len(seq[s].actions)
    /\ \A k \in 1..Len(seq[s].results) :
         /\ seq[s].results[k].index = k
         /\ seq[s].results[k].action = seq[s].actions[k]
    /\ pc[s] \in InAction => frame[s].i = Len(seq[s].results) + 1

\* two results are recorded while the second action's delay is pending
C4_Witness ==
  \E s \in SeqIds :
    /\ Len(seq[s].results) = 2 /\ Len(seq[s].actions) >= 2 /\ pc[s] = "delay"
    /\ seq[s].actions[1] # seq[s].actions[2]

\* C5: condition gate.  The body of a gated action is entered only after
\* the gate was evaluated as met in the same attempt; when the gate is unmet
\* the attempt returns failure ("Action condition not met") and no body was
\* entered in it.
C5_ConditionGate ==
  \A s \in SeqIds :
    /\ (pc[s] \in {"dispatch", "body"} /\ Cur(s).condition # NoCondition) =>
         gate_met[s] = "met"
    /\ (pc[s] = "gate") => (gate_met[s] = "unset" /\ ~body_in_call[s])
    /\ gate_met[s] = "unmet" =>
         /\ pc[s] = "ret"
         /\ ~body_in_call[s]
         /\ frame[s].ret = Outcome(FALSE, "Action condition not met")

\* a top-level attempt ended on an unmet gate
C5_Witness ==
  \E s \in SeqIds :
    /\ gate_met[s] = "unmet" /\ frame[s].level = 0
    /\ Top(s).action_type = FIND_TEXT /\ calls[s][frame[s].i] = 2

\* C6: cancellation between actions.  After stop_execution() was called
\* while the sequence was running, no further action of the sequence is
\* started, and the results already in the log stay as they are.
C6_StopBetweenActions ==
  [][\A s \in SeqIds :
       /\ stop_seen[s] => Started(s)' = Started(s)
       /\ IsPrefix(seq[s].results, seq'[s].results)]_vars

\* C7: cancellation at the next suspension point.  After stop_execution()
\* was called while the sequence was running (its task is then suspended),
\* the retry loop makes no further attempt and no further action is started.
C7_StopAtSuspension ==
  [][\A s \in SeqIds :
       stop_seen[s] => (calls'[s] = calls[s] /\ Started(s)' = Started(s))]_vars

\* C8: per-action timeout.  An attempt whose body lasted longer than the
\* action's timeout returns failure to the retry loop.
C8_ActionTimeout ==
  \A s \in SeqIds :
    ( /\ pc[s] = "ret" /\ frame[s].level = 0 /\ body_in_call[s]
      /\ Top(s).action_type # LOOP
      /\ BodyTicks(Top(s)) > Top(s).timeout ) => ~frame[s].ret.success

\* C9: sequence exclusivity.  Two sequences are never both under way on the
\* engine with an action of each already attempted, and a sequence that
\* ends leaves is_running set while the other is still under way.
C9_Exclusive ==
  \A s, t \in SeqIds :
    (s # t /\ Running(s)) =>
      /\ Running(t) => (Started(s) = 0 \/ Started(t) = 0)
      /\ pc[t] = "done" => (is_running \/ stops > 0 \/ seq[t].end_time < seq[s].start_time)

RECURSIVE Sum(_, _)
Sum(f, S) ==
  IF S = {} THEN 0
  ELSE LET x == CHOOSE y \in S : TRUE IN f[x] + Sum(f, S \ {x})

Successes(s) ==
  Cardinality({k \in 1..Len(seq[s].results) : seq[s].results[k].success})
Failures(s) ==
  Cardinality({k \in 1..Len(seq[s].results) : ~seq[s].results[k].success})

\* C11: the engine's counters accumulate over all execute_sequence runs:
\* total_actions is the number of top-level results recorded over all
\* sequences, successful_actions and failed_actions count the results with
\* success true and false, total = successful + failed, and the step that
\* starts a sequence leaves the counters as they are.
C11_StatsAccumulate ==
  /\ [](/\ stats.total_actions = Sum([s \in SeqIds |-> Len(seq[s].results)], SeqIds)
        /\ stats.successful_actions = Sum([s \in SeqIds |-> Successes(s)], SeqIds)
        /\ stats.failed_actions = Sum([s \in SeqIds |-> Failures(s)], SeqIds)
        /\ stats.total_actions = stats.successful_actions + stats.failed_actions)
  /\ [][\A s \in SeqIds :
          (pc[s] = "idle" /\ pc'[s] # "idle") => stats' = stats]_vars

\* a second sequence has started after a first one left a success and a
\* failure in the counters
C11_Witness ==
  /\ pc[1] = "done" /\ pc[2] = "delay"
  /\ Successes(1) >= 1 /\ Failures(1) >= 1
  /\ stats.total_actions = Len(seq[1].results) + 1
  /\ stats.failed_actions >= 1

\* The observation is a transient environment error for the action: the
\* capture returned no image, the body raised, or the tap injection of a
\* coordinate tap returned false.
TransientError(a, e) ==
  \/ e \in {"no_image", "raise"}
  \/ a.action_type = TAP /\ a.target = "coordinates" /\ e = "present_nofire"

\* C12: a transient environment error in an action body (no image from the
\* capture, a tap injection that returns false, an exception) gives a failed
\* attempt with an error message.
C12_TransientAbsorbed ==
  \A s \in SeqIds :
    (pc[s] = "ret" /\ obs[s] # "none" /\ TransientError(Cur(s), obs[s]))
      => (~frame[s].ret.success /\ frame[s].ret.error # None)

\* C13: a thinking delay is applied before every attempt but the first: no
\* delay while no attempt was made, at most one delay ahead of the attempts
\* made and only while the next attempt is about to start, and an action
\* whose result is recorded after k >= 1 attempts had exactly k - 1 delays.
C13_ThinkingDelayPlacement ==
  \A s \in SeqIds :
    /\ \A i \in 1..Len(seq[s].actions) :
         /\ thinks[s][i] <= calls[s][i]
         /\ calls[s][i] >= 1 => thinks[s][i] >= calls[s][i] - 1
         /\ (calls[s][i] >= 1 /\ thinks[s][i] = calls[s][i])
              => (frame[s].i = i /\ frame[s].level = 0 /\ pc[s] \in {"think", "single"})
    /\ \A k \in 1..Len(seq[s].results) :
         LET r == seq[s].results[k] IN
         /\ calls[s][r.index] >= 1 => thinks[s][r.index] = calls[s][r.index] - 1
         /\ r.success => thinks[s][r.index] = r.attempts - 1

\* an action that needed MaxRetries attempts and had MaxRetries - 1 delays
C13_Witness ==
  \E s \in SeqIds : \E k \in 1..Len(seq[s].results) :
    LET r == seq[s].results[k] IN
    /\ r.success /\ r.attempts = MaxRetries
    /\ thinks[s][r.index] = MaxRetries - 1

(***************************************************************************)
(* The position cache: IntelligentPositionCache over its memory tier (a    *)
(* dict, kept here in insertion order) and its database tier.              *)
(***************************************************************************)
\* IntelligentPositionCache.__init__: confidence_threshold, in hundredths
ConfidenceThreshold == 70
\* ScreenHasher.hash_screen: the hash returned when hashing fails
UNKNOWN == "unknown"

\* A screen image: the 64x64 grayscale grid hash_screen reduces it to, whether
\* that reduction succeeds, and its size.
Image(g, ok, w, h) == [grid |-> g, decodes |-> ok, width |-> w, height |-> h]
\* a screen, the same content at a smaller size, and an image that cannot
\* be hashed
Screens == {Image("g1", TRUE, 2, 2), Image("g1", TRUE, 1, 1), Image("g2", FALSE, 2, 2)}

\* ScreenHasher.hash_screen(image): the digest of the grid, or the sentinel
HashScreen(image) == IF image.decodes THEN image.grid ELSE UNKNOWN

\* texts and their characters
Texts == {"Help", "he", "Back"}
Chars(text) ==
  CASE text = "Help" -> <<"H", "e", "l", "p">>
    [] text = "he" -> <<"h", "e">>
    [] text = "Back" -> <<"B", "a", "c", "k">>
\* str.lower()
LowerChar(c) ==
  CASE c = "H" -> "h" [] c = "B" -> "b" [] c = "J" -> "j" [] c = "S" -> "s"
    [] OTHER -> c
Lower(cs) == [i \in 1..Len(cs) |-> LowerChar(cs[i])]
\* a in b, on strings
IsSubstring(a, b) ==
  \E i \in 0..(Len(b) - Len(a)) : SubSeq(b, i + 1, i + Len(a)) = a
\* _check_memory_cache line 401
FuzzyMatch(text, cached_text) ==
  \/ IsSubstring(Lower(Chars(text)), Lower(Chars(cached_text)))
  \/ IsSubstring(Lower(Chars(cached_text)), Lower(Chars(text)))

\* _verify_cached_position lines 427-433
InBounds(box, image) ==
  ~(\/ box[1] + box[3] > image.width
    \/ box[2] + box[4] > image.height
    \/ box[1] < 0
    \/ box[2] < 0)

\* TextDetection, and the OCR results of an image: its detections lie on it
TextDetection(text, c, box) == [text |-> text, confidence |-> c, bounding_box |-> box]
\* a detection below the confidence threshold
Faint == TextDetection("Back", 50, <<0, 0, 1, 1>>)
HelpAt == TextDetection("Help", 90, <<1, 1, 1, 1>>)
BackAt == TextDetection("Back", 90, <<0, 0, 1, 1>>)
HeAt == TextDetection("he", 90, <<0, 0, 1, 1>>)
OcrResults(image) ==
  {ds \in {<<HelpAt>>, <<BackAt>>, <<Faint, HeAt>>, <<HelpAt, BackAt>>} :
     \A k \in 1..Len(ds) : InBounds(ds[k].bounding_box, image)}

\* CachedPosition as cache_positions builds it (lines 370-378)
CachedPosition(d, hash, t, app) ==
  [text |-> d.text, bounding_box |-> d.bounding_box, confidence |-> d.confidence,
   screen_hash |-> hash, timestamp |-> t, hit_count |-> 0, last_verified |-> 0,
   app_context |-> app]

\* f"{text}:{screen_hash}:{app_context}"
CacheKey(text, hash, app) == <<text, hash, app>>
KeyOf(pos) == CacheKey(pos.text, pos.screen_hash, pos.app_context)

\* position of a key in the dict, 0 when absent
KeyIndex(mem, key) ==
  IF \E i \in 1..Len(mem) : mem[i].key = key
  THEN CHOOSE i \in 1..Len(mem) : mem[i].key = key
  ELSE 0
RemoveAt(mem, i) == SubSeq(mem, 1, i - 1) \o SubSeq(mem, i + 1, Len(mem))
Held(mem) == {mem[i].pos : i \in 1..Len(mem)}

\* the entry with the fewest hits goes first
LeastHitIndex(mem) ==
  CHOOSE i \in 1..Len(mem) :
    \A j \in 1..Len(mem) :
      \/ mem[i].pos.hit_count < mem[j].pos.hit_count
      \/ mem[i].pos.hit_count = mem[j].pos.hit_count /\ i <= j

\* _add_to_memory_cache lines 454-455: min over the keys by timestamp (the
\* first of equals in dict order)
OldestIndex(mem) ==
  CHOOSE i \in 1..Len(mem) :
    \A j \in 1..Len(mem) :
      \/ mem[i].pos.timestamp < mem[j].pos.timestamp
      \/ mem[i].pos.timestamp = mem[j].pos.timestamp /\ i <= j

\* the tier may grow one past its capacity
CacheFullLate(mem) == Len(mem) > MaxMemoryCache

\* _add_to_memory_cache line 453
CacheFull(mem) == Len(mem) >= MaxMemoryCache

\* _add_to_memory_cache lines 453-456: the eviction loop; out collects each
\* victim with the entries held when it was chosen
RECURSIVE Evict(_, _)
Evict(mem, out) ==
  IF CacheFull(mem)
  THEN LET i == OldestIndex(mem)
       IN Evict(RemoveAt(mem, i), out \cup {[victim |-> mem[i].pos, held |-> Held(mem)]})
  ELSE [mem |-> mem, out |-> out]

\* _add_to_memory_cache
AddToMemoryCache(mem, key, pos) ==
  LET ev == Evict(mem, {})
      i == KeyIndex(ev.mem, key)
  IN [mem |-> IF i = 0 THEN Append(ev.mem, [key |-> key, pos |-> pos])
              ELSE [ev.mem EXCEPT ![i] = [key |-> key, pos |-> pos]],
      out |-> ev.out]

\* PositionCacheDatabase.save_position: INSERT OR REPLACE on the unique key
SavePosition(db, pos) == {r \in db : KeyOf(r) # KeyOf(pos)} \cup {pos}
\* PositionCacheDatabase.get_position: the rows of the key (none or one)
GetPosition(db, text, hash, app) == {r \in db : KeyOf(r) = CacheKey(text, hash, app)}
\* the row is left as it was
UpdateHitCountNot(db, pos, t) == {r : r \in db}

\* PositionCacheDatabase.update_hit_count
UpdateHitCount(db, pos, t) ==
  {IF KeyOf(r) = KeyOf(pos)
   THEN [r EXCEPT !.hit_count = @ + 1, !.last_verified = t] ELSE r : r \in db}

\* the rows a query reaches: none without a connection
Rows(db, conn) == IF conn THEN db ELSE {}

\* the memory tier is written only after the database took the row
SaveToCachesDatabaseFirst(mem, db, conn, cache_key, pos) ==
  LET add == AddToMemoryCache(mem, cache_key, pos)
  IN [mem |-> IF conn THEN add.mem ELSE mem,
      db |-> IF conn THEN SavePosition(db, pos) ELSE db,
      out |-> IF conn THEN add.out ELSE {},
      db_saved |-> conn]

\* _save_to_caches: the database (save_position returns False without a
\* connection), then the memory tier; returns db_saved
SaveToCaches(mem, db, conn, cache_key, pos) ==
  LET add == AddToMemoryCache(mem, cache_key, pos)
  IN [mem |-> add.mem,
      db |-> IF conn THEN SavePosition(db, pos) ELSE db,
      out |-> add.out,
      db_saved |-> conn]

\* every detection is stored
QualifiesAlways(detection) == TRUE

\* cache_positions line 368
Qualifies(detection) == detection.confidence >= ConfidenceThreshold

\* cache_positions lines 366-382: the loop over the detections, counting the
\* saves that _save_to_caches reports
RECURSIVE SaveAll(_, _, _, _, _, _, _, _, _)
SaveAll(ds, hash, t, app, mem, db, conn, out, count) ==
  IF ds = <<>> THEN [mem |-> mem, db |-> db, out |-> out, cached_count |-> count]
  ELSE IF Qualifies(Head(ds))
       THEN LET pos == CachedPosition(Head(ds), hash, t, app)
                sv == SaveToCaches(mem, db, conn, KeyOf(pos), pos)
            IN SaveAll(Tail(ds), hash, t, app, sv.mem, sv.db, conn,
                       out \cup sv.out, IF sv.db_saved THEN count + 1 ELSE count)
       ELSE SaveAll(Tail(ds), hash, t, app, mem, db, conn, out, count)

\* every entry is verified again
RecentlyVerifiedNever(pos, t) == FALSE

\* _verify_cached_position line 422
RecentlyVerified(pos, t) == t - pos.last_verified < VerificationThreshold

\* the hit is not counted
UpdateCacheHitNot(pos) == pos

\* _update_cache_hit line 478
UpdateCacheHit(pos) == [pos EXCEPT !.hit_count = @ + 1]

\* _invalidate_cached_position: the requested key is deleted
InvalidateCachedPosition(mem, cache_key) ==
  IF KeyIndex(mem, cache_key) = 0 THEN mem ELSE RemoveAt(mem, KeyIndex(mem, cache_key))

\* _check_memory_cache: the exact key, then the first fuzzy match in dict order
CheckMemoryCache(mem, cache_key, text, fuzzy_match) ==
  IF KeyIndex(mem, cache_key) # 0 THEN KeyIndex(mem, cache_key)
  ELSE IF fuzzy_match /\ \E i \in 1..Len(mem) : FuzzyMatch(text, mem[i].pos.text)
       THEN CHOOSE i \in 1..Len(mem) :
              /\ FuzzyMatch(text, mem[i].pos.text)
              /\ \A j \in 1..(i - 1) : ~FuzzyMatch(text, mem[j].pos.text)
       ELSE 0

engineState == <<now, engineVars, taskVars, stops, histVars>>
engineSide == <<engineState, matcherVars, tapVars>>

\* cache_positions(ocr_result, screen_image)
CachePositions(ocr_result, image) ==
  /\ stores < MaxStores
  /\ \E r \in {SaveAll(ocr_result, HashScreen(image), cache_time,
                       current_app_context, memory_cache, db_cache, connection,
                       {}, 0)} :
       /\ memory_cache' = r.mem
       /\ db_cache' = r.db
       /\ evicted' = r.out
       /\ cached_count' = r.cached_count
  /\ stores' = stores + 1
  /\ last_call' = [op |-> "cache_positions", ocr_result |-> ocr_result, image |-> image]
  /\ found' = <<>>
  /\ probed' = <<>>
  /\ UNCHANGED <<cache_time, connection, current_app_context, cache_stats, engineSide>>

\* find_cached_position lines 306-343 as a function of the cache's state:
\* the tiers afterwards, the returned position, and what was found and
\* evicted on the way
Lookup(text, image, fuzzy_match, mem, db, conn, app, t) ==
  LET screen_hash == HashScreen(image)
      cache_key == CacheKey(text, screen_hash, app)
      i == CheckMemoryCache(mem, cache_key, text, fuzzy_match)
      rows == IF i = 0 THEN GetPosition(Rows(db, conn), text, screen_hash, app) ELSE {}
      add == IF rows = {} THEN [mem |-> mem, out |-> {}]
             ELSE AddToMemoryCache(mem, cache_key, CHOOSE r \in rows : TRUE)
      idx == IF i # 0 THEN i
             ELSE IF rows # {} THEN KeyIndex(add.mem, cache_key) ELSE 0
  IN IF idx = 0
     THEN [mem |-> mem, db |-> db, found |-> <<>>, probed |-> <<>>, out |-> {}]
     ELSE LET cached_pos == add.mem[idx].pos
              recent == RecentlyVerified(cached_pos, t)
              is_valid == recent \/ InBounds(cached_pos.bounding_box, image)
              verified == IF recent THEN cached_pos
                          ELSE [cached_pos EXCEPT !.last_verified = t]
              hit == UpdateCacheHit(verified)
              seen == <<[pos |-> cached_pos, key |-> add.mem[idx].key,
                         path |-> IF i = 0 THEN "database"
                                  ELSE IF add.mem[idx].key = cache_key
                                       THEN "exact" ELSE "fuzzy"]>>
          IN IF is_valid
             THEN [mem |-> [add.mem EXCEPT ![idx].pos = hit],
                   db |-> IF conn THEN UpdateHitCount(db, hit, t) ELSE db,
                   found |-> <<hit>>, probed |-> seen, out |-> add.out]
             ELSE [mem |-> InvalidateCachedPosition(add.mem, cache_key),
                   db |-> db, found |-> <<>>, probed |-> seen, out |-> add.out]

\* find_cached_position(text, screen_image, fuzzy_match), among the first
\* `limit` requests
FindCachedPositionWithin(limit, text, image, fuzzy_match) ==
  /\ cache_stats.total_requests < limit
  /\ \E r \in {Lookup(text, image, fuzzy_match, memory_cache, db_cache,
                      connection, current_app_context, cache_time)} :
       /\ memory_cache' = r.mem
       /\ db_cache' = r.db
       /\ found' = r.found
       /\ probed' = r.probed
       /\ evicted' = r.out
       /\ cache_stats' =
            [total_requests |-> cache_stats.total_requests + 1,
             cache_hits |-> cache_stats.cache_hits + (IF r.found # <<>> THEN 1 ELSE 0),
             cache_misses |-> cache_stats.cache_misses + (IF r.found # <<>> THEN 0 ELSE 1)]
  /\ last_call' = [op |-> "find_cached_position", text |-> text, image |-> image,
                   time |-> cache_time]
  /\ UNCHANGED <<cache_time, connection, current_app_context, cached_count, stores,
                 engineSide>>

\* find_cached_position(text, screen_image, fuzzy_match)
FindCachedPosition(text, image, fuzzy_match) ==
  FindCachedPositionWithin(MaxFinds, text, image, fuzzy_match)

\* set_app_context(app_name)
SetAppContext(app_name) ==
  /\ current_app_context # app_name
  /\ current_app_context' = app_name
  /\ last_call' = [op |-> "set_app_context"]
  /\ found' = <<>>
  /\ probed' = <<>>
  /\ evicted' = {}
  /\ UNCHANGED <<cache_time, memory_cache, db_cache, connection, cache_stats,
                 cached_count, stores, engineSide>>

\* cleanup_cache(max_age_days), the age in ticks
CleanupCache(max_age) ==
  /\ LET cutoff_time == cache_time - max_age
     IN /\ db_cache' = IF connection
                       THEN {r \in db_cache : ~(r.timestamp < cutoff_time)}
                       ELSE db_cache
        /\ memory_cache' = SelectSeq(memory_cache,
                                     LAMBDA e : ~(e.pos.timestamp < cutoff_time))
  /\ last_call' = [op |-> "cleanup_cache"]
  /\ found' = <<>>
  /\ probed' = <<>>
  /\ evicted' = {}
  /\ UNCHANGED <<cache_time, connection, current_app_context, cache_stats,
                 cached_count, stores, engineSide>>

\* time passes between two calls, up to `limit`
TickUntil(limit) ==
  /\ cache_time < limit
  /\ cache_time' = cache_time + 1
  /\ UNCHANGED <<memory_cache, db_cache, connection, current_app_context, cache_stats,
                 found, cached_count, last_call, probed, evicted, stores, engineSide>>

\* time passes between two calls
Tick == TickUntil(VerificationThreshold + MaxCacheTime)

Apps == {"", "Gmail"}

\* A cache its connector has just built; the engine is idle.
InitCache ==
  /\ \E conn \in BOOLEAN : InitCacheObject(conn)
  /\ InitAgentObject
  /\ InitTapObject
  /\ InitEngineObject
  /\ seq = [s \in SeqIds |-> AutomationSequence(<<WaitShort>>, LongTimeout)]

NextCache ==
  \/ \E image \in Screens : \E ocr_result \in OcrResults(image) :
       CachePositions(ocr_result, image)
  \/ \E text \in Texts, image \in Screens, fuzzy_match \in BOOLEAN :
       FindCachedPosition(text, image, fuzzy_match)
  \/ \E app_name \in Apps : SetAppContext(app_name)
  \/ CleanupCache(MaxAgeTicks)
  \/ Tick

SpecCache == InitCache /\ [][NextCache]_vars

\* One label stored from the full-size screen and looked up on that screen
\* and on the same content at a smaller size, over more finds and a longer
\* stretch of time.
MaxDeepFinds == 4
MaxDeepTime == 2

NextCacheDeep ==
  \/ CachePositions(<<HelpAt>>, Image("g1", TRUE, 2, 2))
  \/ \E image \in {Image("g1", TRUE, 2, 2), Image("g1", TRUE, 1, 1)}, fuzzy_match \in BOOLEAN :
       FindCachedPositionWithin(MaxDeepFinds, "Help", image, fuzzy_match)
  \/ TickUntil(VerificationThreshold + MaxDeepTime)

SpecCacheDeep == InitCache /\ [][NextCacheDeep]_vars

(***************************************************************************)
(* Properties of the position cache.                                       *)
(***************************************************************************)
IsFind == last_call.op = "find_cached_position"
IsStore == last_call.op = "cache_positions"

\* The entry a find of the key can reach by the key itself: the memory
\* tier's entry, or the database row when no entry of the memory tier
\* matches the text.
EntryOf(mem, db, conn, text, hash, app) ==
  LET key == CacheKey(text, hash, app) IN
  IF KeyIndex(mem, key) # 0 THEN <<mem[KeyIndex(mem, key)].pos>>
  ELSE IF /\ CheckMemoryCache(mem, key, text, TRUE) = 0
          /\ GetPosition(Rows(db, conn), text, hash, app) # {}
       THEN <<CHOOSE r \in GetPosition(Rows(db, conn), text, hash, app) : TRUE>>
       ELSE <<>>

\* C14: cache round trip.  cache_positions leaves every detection at or above
\* the confidence threshold in the memory tier under its key with hit_count
\* 0, and a find_cached_position of a cached label on its screen under its
\* context returns that entry as a hit with hit_count one higher, and leaves
\* it cached with that count (so k finds after the store give hit_count k).
C14_CacheRoundTrip ==
  [][/\ (stores' # stores) =>
          \A k \in 1..Len(last_call'.ocr_result) :
            LET d == last_call'.ocr_result[k]
                pos == CachedPosition(d, HashScreen(last_call'.image), cache_time,
                                      current_app_context)
            IN d.confidence >= ConfidenceThreshold =>
                 /\ EntryOf(memory_cache', db_cache', connection', d.text, pos.screen_hash,
                            pos.app_context) = <<pos>>
                 /\ KeyIndex(memory_cache', KeyOf(pos)) # 0
     /\ (cache_stats'.total_requests # cache_stats.total_requests) =>
          LET text == last_call'.text
              image == last_call'.image
              e == EntryOf(memory_cache, db_cache, connection, text, HashScreen(image),
                           current_app_context)
          IN (e # <<>> /\ InBounds(e[1].bounding_box, image)) =>
               /\ found' # <<>>
               /\ KeyOf(found'[1]) = KeyOf(e[1])
               /\ found'[1].hit_count = e[1].hit_count + 1
               /\ found'[1].bounding_box = e[1].bounding_box
               /\ found'[1].timestamp = e[1].timestamp
               /\ EntryOf(memory_cache', db_cache', connection', text, HashScreen(image),
                          current_app_context) = found'
               /\ KeyIndex(memory_cache', KeyOf(e[1])) # 0]_vars

\* MaxFinds finds of a stored label, each a hit, the last with hit_count
\* MaxFinds
C14_Witness ==
  /\ IsFind /\ found # <<>>
  /\ found[1].text = last_call.text
  /\ found[1].screen_hash = HashScreen(last_call.image)
  /\ found[1].hit_count = MaxFinds
  /\ cache_stats.cache_hits = MaxFinds

\* C15: the memory tier never holds more than max_memory_cache entries.
C15_EvictionBound == Len(memory_cache) <= MaxMemoryCache

\* an insertion into the full memory tier has evicted an entry
C15_Witness == Len(memory_cache) = MaxMemoryCache /\ evicted # {}

\* C16: an entry evicted by an insertion has the smallest creation timestamp
\* of the entries held when it was chosen, whatever the hit counts.
C16_EvictionVictim ==
  \A e \in evicted : \A p \in e.held : e.victim.timestamp <= p.timestamp

\* the victim was older than an entry that stayed, had more hits than it and
\* was returned by a find after that entry was created
C16_Witness ==
  \E e \in evicted : \E p \in e.held :
    /\ e.victim.timestamp < p.timestamp
    /\ e.victim.hit_count > p.hit_count
    /\ e.victim.last_verified >= p.timestamp

\* C17: re-verification policy.  An entry found by find_cached_position is
\* returned as a hit without a bounds check when its last_verified is less
\* than verification_threshold old; an older one is returned as a hit exactly
\* when its bounding box lies within the current screen.
C17_ReverificationPolicy ==
  (IsFind /\ probed # <<>>) =>
    LET p == probed[1].pos IN
    IF last_call.time - p.last_verified < VerificationThreshold
    THEN found # <<>>
    ELSE (found # <<>>) <=> InBounds(p.bounding_box, last_call.image)

\* a recently verified entry is returned on a screen its box does not fit
C17_Witness ==
  /\ IsFind /\ probed # <<>> /\ found # <<>>
  /\ last_call.time - probed[1].pos.last_verified < VerificationThreshold
  /\ ~InBounds(probed[1].pos.bounding_box, last_call.image)

\* C18: when find_cached_position finds an entry and its re-verification
\* fails, the call returns a miss, the entry is no longer in the memory tier
\* and its database row is still there.
C18_InvalidationOnFailure ==
  (IsFind /\ probed # <<>>
     /\ ~(last_call.time - probed[1].pos.last_verified < VerificationThreshold)
     /\ ~InBounds(probed[1].pos.bounding_box, last_call.image)) =>
    /\ found = <<>>
    /\ KeyIndex(memory_cache, probed[1].key) = 0
    /\ probed[1].path = "database" => \E r \in db_cache : KeyOf(r) = probed[1].key

\* C19: find_cached_position never returns an entry of another app context
\* than the cache's current one.
C19_AppContextIsolation ==
  (IsFind /\ found # <<>>) => found[1].app_context = current_app_context

\* C20: a find_cached_position on a screen whose hash is the sentinel
\* "unknown" returns a miss.
C20_SentinelAlwaysMiss ==
  (IsFind /\ HashScreen(last_call.image) = UNKNOWN) => found = <<>>

\* the positions cache_positions builds for the detections of its last call
\* that reach the confidence threshold
StoredNow(ds, image, t, app) ==
  {CachedPosition(ds[k], HashScreen(image), t, app) :
     k \in {j \in 1..Len(ds) : ds[j].confidence >= ConfidenceThreshold}}

C22_MemoryOnlyDegradation ==
  [][~connection =>
       /\ db_cache' = db_cache
       /\ (stores' # stores) =>
            StoredNow(last_call'.ocr_result, last_call'.image, cache_time,
                      current_app_context) \subseteq Held(memory_cache')
       /\ (cache_stats'.total_requests # cache_stats.total_requests) =>
            LET key == CacheKey(last_call'.text, HashScreen(last_call'.image),
                                current_app_context)
                i == KeyIndex(memory_cache, key)
            IN (i # 0 /\ InBounds(memory_cache[i].pos.bounding_box, last_call'.image)) =>
                 /\ found' # <<>>
                 /\ KeyOf(found'[1]) = key
                 /\ probed'[1].path = "exact"
                 /\ found'[1] \in Held(memory_cache')]_vars

\* without a connection, a label stored before is found in the memory tier
C22_Witness ==
  /\ ~connection /\ db_cache = {}
  /\ IsFind /\ found # <<>>
  /\ stores > 0
  /\ probed[1].path = "exact"
  /\ found[1].text = last_call.text

\* C23: refresh on reuse.  Whenever find_cached_position returns a hit, the
\* entry's hit_count is one higher than before and its last_verified is the
\* time of that find, in the memory tier and in its database row.
C23_RefreshOnReuse ==
  (IsFind /\ found # <<>>) =>
    /\ found[1].hit_count = probed[1].pos.hit_count + 1
    /\ \A i \in 1..Len(memory_cache) :
         memory_cache[i].key = probed[1].key =>
           /\ memory_cache[i].pos.hit_count = probed[1].pos.hit_count + 1
           /\ memory_cache[i].pos.last_verified = last_call.time
    /\ \A r \in Rows(db_cache, connection) :
         KeyOf(r) = KeyOf(found[1]) => r.last_verified = last_call.time

(***************************************************************************)
(* The element matcher: CompleteMobileAgentX.smart_element_finder over the *)
(* elements analyze_screen_with_ai detected.  Texts are kept as their      *)
(* characters.                                                             *)
(***************************************************************************)
\* bounds of the matcher's inputs
MaxElements == 3     \* elements detected on one screen
MaxQueries == 2      \* smart_element_finder calls
MaxAnalyses == 1     \* analyze_screen_with_ai calls

\* smart_element_finder: the screen height without a screenshot, the zones
\* in hundredths of the screen height, and the smallest areas
DefaultScreenHeight == 2400
SearchBarZone == 15
ContactListStart == 25
ContactListEnd == 85
ExactMinArea == 2000
FuzzyMinArea == 3000
\* analyze_screen_with_ai: the confidence an element must exceed, in hundredths
MinElementConfidence == 30

John == <<"J", "o", "h", "n">>
Johnny == <<"J", "o", "h", "n", "n", "y">>
Joh == <<"J", "o", "h">>
Search == <<"S", "e", "a", "r", "c", "h">>

\* smart_element_finder lines 470-474
ui_patterns ==
  {<<"s", "e", "a", "r", "c", "h">>,
   <<"f", "i", "n", "d">>,
   <<"t", "y", "p", "e">>,
   <<"t", "a", "p">>,
   <<"e", "n", "t", "e", "r">>,
   <<"m", "e", "s", "s", "a", "g", "e">>,
   <<"c", "h", "a", "t">>,
   <<"c", "a", "l", "l">>,
   <<"v", "i", "d", "e", "o">>,
   <<"v", "o", "i", "c", "e">>,
   <<"s", "t", "a", "t", "u", "s">>,
   <<"n", "e", "w">>,
   <<"c", "o", "n", "t", "a", "c", "t">>,
   <<"g", "r", "o", "u", "p">>,
   <<"f", "i", "l", "e">>,
   <<"m", "a", "n", "a", "g", "e", "r">>,
   <<"t", "e", "l", "e", "g", "r", "a", "m">>,
   <<"i", "n", "s", "t", "a", "g", "r", "a", "m">>,
   <<"b", "r", "a", "v", "e">>,
   <<"c", "a", "l", "e", "n", "d", "a", "r">>,
   <<"d", "i", "s", "c", "o", "r", "d">>,
   <<"w", "h", "a", "t", "s", "a", "p", "p">>}

\* re.match(r"^[A-Z][a-zA-Z\s'.-]*$", text)
LooksLikeName(text) ==
  LET upper == {"A", "B", "C", "D", "E", "F", "G", "H", "I", "J", "K", "L", "M",
                "N", "O", "P", "Q", "R", "S", "T", "U", "V", "W", "X", "Y", "Z"}
      lower == {"a", "b", "c", "d", "e", "f", "g", "h", "i", "j", "k", "l", "m",
                "n", "o", "p", "q", "r", "s", "t", "u", "v", "w", "x", "y", "z"}
  IN /\ Len(text) >= 1
     /\ text[1] \in upper
     /\ \A i \in 2..Len(text) : text[i] \in upper \cup lower \cup {" ", "'", ".", "-"}

\* str.strip()
RECURSIVE Strip(_)
Strip(text) ==
  IF text = <<>> THEN text
  ELSE IF Head(text) = " " THEN Strip(Tail(text))
  ELSE IF text[Len(text)] = " " THEN Strip(SubSeq(text, 1, Len(text) - 1))
  ELSE text

\* an element of analyze_screen_with_ai (lines 331-340); match_type and
\* priority are the keys smart_element_finder adds to it
Element(text, y, area, confidence) ==
  [text |-> text, center |-> <<540, y>>, confidence |-> confidence, area |-> area,
   match_type |-> "none", priority |-> 0]

\* what the OCR reader may report on a screen
OcrElements ==
  {Element(John, 1200, 4000, 90), Element(John, 1200, 2500, 95),
   Element(John, 480, 4000, 80), Element(John, 2160, 4000, 90),
   Element(John, 1200, 1000, 90), Element(John, 1200, 4000, 20),
   Element(Johnny, 1200, 5000, 95), Element(Johnny, 1200, 3500, 85),
   Element(Joh, 1200, 6000, 99),
   Element(Search, 120, 4000, 90), Element(Search, 1200, 4000, 90)}

\* tuple comparison of Python, on keys of equal length
RECURSIVE KeyGreater(_, _)
KeyGreater(a, b) ==
  /\ a # <<>>
  /\ \/ Head(a) > Head(b)
     \/ Head(a) = Head(b) /\ KeyGreater(Tail(a), Tail(b))

\* the [k, v] pairs descending by k, equal keys in their original order
RECURSIVE SortPairs(_)
SortPairs(ps) ==
  IF ps = <<>> THEN <<>>
  ELSE LET rest == SortPairs(Tail(ps))
           h == Head(ps)
           n == Cardinality({i \in 1..Len(rest) : KeyGreater(rest[i].k, h.k)})
       IN SubSeq(rest, 1, n) \o <<h>> \o SubSeq(rest, n + 1, Len(rest))

\* sorted(..., reverse=True) and list.sort(reverse=True) over [k, v] pairs:
\* the values in the order of their keys
SortDesc(ps) == [i \in 1..Len(ps) |-> SortPairs(ps)[i].v]

\* the reader's results on the screen: distinct elements that lie on it
OcrReadings(image) ==
  UNION {{rs \in [1..n -> OcrElements] :
            /\ \A i, j \in 1..n : rs[i] = rs[j] => i = j
            /\ \A i \in 1..n : rs[i].center[2] < image.height} : n \in 0..MaxElements}

\* capture_screen(), when the capture succeeds
CaptureScreen(image) ==
  /\ current_screenshot # image
  /\ current_screenshot' = image
  /\ UNCHANGED <<detected_elements, matches, query, queries, analyses>>
  /\ UNCHANGED debugVars
  /\ UNCHANGED <<engineState, cacheVars, tapVars>>

\* analyze_screen_with_ai(): the reader's results above the confidence
\* floor, sorted by confidence and area
AnalyzeScreenWithAi ==
  /\ current_screenshot.present
  /\ analyses < MaxAnalyses
  /\ analyses' = analyses + 1
  /\ \E results \in OcrReadings(current_screenshot) :
       LET elements == SelectSeq(results,
                                 LAMBDA e : e.confidence > MinElementConfidence
                                            /\ Strip(e.text) # <<>>)
       IN detected_elements' =
            SortDesc([i \in 1..Len(elements) |->
                        [k |-> <<elements[i].confidence, elements[i].area>>,
                         v |-> elements[i]]])
  /\ UNCHANGED <<current_screenshot, matches, query, queries>>
  /\ UNCHANGED debugVars
  /\ UNCHANGED <<engineState, cacheVars, tapVars>>

\* every match has the same priority
PriorityFlat(match_type, element_type_filter) ==
  IF match_type = "none" THEN 0 ELSE 1

\* smart_element_finder lines 437, 441, 486, 490
Priority(match_type, element_type_filter) ==
  CASE match_type = "exact" -> IF element_type_filter = "contact" THEN 100 ELSE 10
    [] match_type = "contains" -> 5
    [] match_type = "partial" -> 2

\* smart_element_finder lines 422 and 454
InSearchBarZone(y, screen_height) == 100 * y <= SearchBarZone * screen_height

\* no band is applied
InContactListAreaAlways(y, screen_height) == TRUE

\* smart_element_finder lines 427 and 458
InContactListArea(y, screen_height) ==
  /\ ContactListStart * screen_height <= 100 * y
  /\ 100 * y <= ContactListEnd * screen_height

\* smart_element_finder lines 451-481: the contact filter of the non-exact
\* matches
PassesContactFilter(element, screen_height) ==
  /\ ~InSearchBarZone(element.center[2], screen_height)
  /\ InContactListArea(element.center[2], screen_height)
  /\ ~(Len(Strip(element.text)) < 3)
  /\ ~(element.area < FuzzyMinArea)
  /\ ~(\E pattern \in ui_patterns : IsSubstring(pattern, Lower(element.text)))
  /\ LooksLikeName(element.text)

\* smart_element_finder lines 415-491: the match type one element gets, or
\* "none" when it is skipped; has_exact says whether exact_matches is
\* non-empty when the element is looked at
MatchType(element, target_lower, element_type_filter, screen_height, has_exact) ==
  LET text_lower == Lower(element.text) IN
  IF target_lower = text_lower
  THEN IF element_type_filter = "contact"
       THEN IF \/ InSearchBarZone(element.center[2], screen_height)
               \/ ~InContactListArea(element.center[2], screen_height)
               \/ element.area < ExactMinArea
            THEN "none" ELSE "exact"
       ELSE "exact"
  ELSE IF element_type_filter = "contact" /\ has_exact THEN "none"
  ELSE IF element_type_filter = "contact" /\ ~PassesContactFilter(element, screen_height)
       THEN "none"
  ELSE IF IsSubstring(target_lower, text_lower) THEN "contains"
  ELSE IF IsSubstring(text_lower, target_lower) /\ Len(text_lower) > 2 THEN "partial"
  ELSE "none"

\* smart_element_finder lines 414-491: the loop over detected_elements from
\* index k on; the elements it tags, exact_matches and fuzzy_matches
RECURSIVE ScanElements(_, _, _, _, _, _, _)
ScanElements(elements, k, target_lower, filter, screen_height, exact_matches, fuzzy_matches) ==
  IF k > Len(elements)
  THEN [elements |-> elements, exact_matches |-> exact_matches,
        fuzzy_matches |-> fuzzy_matches]
  ELSE LET mt == MatchType(elements[k], target_lower, filter,
                           screen_height, exact_matches # <<>>)
           tagged == [elements[k] EXCEPT
                        !.match_type = mt,
                        !.priority = Priority(mt, filter)]
       IN IF mt = "none"
          THEN ScanElements(elements, k + 1, target_lower, filter,
                            screen_height, exact_matches, fuzzy_matches)
          ELSE ScanElements([elements EXCEPT ![k] = tagged], k + 1, target_lower,
                            filter, screen_height,
                            IF mt = "exact" THEN Append(exact_matches, tagged)
                            ELSE exact_matches,
                            IF mt = "exact" THEN fuzzy_matches
                            ELSE Append(fuzzy_matches, tagged))

\* the matches keep the order in which they were found within a priority
SortKeyPriorityOnly(x) == <<x.priority, 0, 0>>

\* smart_element_finder line 497: the sort key
SortKey(x) == <<x.priority, x.area, x.confidence>>

\* smart_element_finder(target, element_type_filter)
SmartElementFinder(target, element_type_filter) ==
  /\ queries < MaxQueries
  /\ LET screen_height == IF current_screenshot.present THEN current_screenshot.height
                          ELSE DefaultScreenHeight
     IN /\ query' = [op |-> "smart_element_finder", target |-> target,
                     element_type_filter |-> element_type_filter,
                     screen_height |-> screen_height]
        /\ IF detected_elements = <<>>
           THEN /\ matches' = <<>>
                /\ UNCHANGED detected_elements
           ELSE \E r \in {ScanElements(detected_elements, 1, Lower(target),
                                       element_type_filter, screen_height,
                                       <<>>, <<>>)} :
                  /\ detected_elements' = r.elements
                  /\ LET all_matches == r.exact_matches \o r.fuzzy_matches
                     IN matches' =
                          SortDesc([i \in 1..Len(all_matches) |->
                                      [k |-> SortKey(all_matches[i]),
                                       v |-> all_matches[i]]])
  /\ queries' = queries + 1
  /\ UNCHANGED <<current_screenshot, analyses, debugVars>>
  /\ UNCHANGED <<engineState, cacheVars, tapVars>>

\* The objects as constructed: an agent that has not captured a screen, a
\* tap engine that has not tapped, an empty cache and an idle engine.
InitObjects ==
  /\ InitCacheObject(TRUE)
  /\ InitAgentObject
  /\ InitTapObject
  /\ InitEngineObject
  /\ seq = [s \in SeqIds |-> AutomationSequence(<<WaitShort>>, LongTimeout)]

NextMatcher ==
  \/ \E image \in {Screenshot(1080, 2400), Screenshot(720, 1600)} : CaptureScreen(image)
  \/ AnalyzeScreenWithAi
  \/ \E target \in {John, Johnny, Search}, element_type_filter \in {None, "contact"} :
       SmartElementFinder(target, element_type_filter)

SpecMatcher == InitObjects /\ [][NextMatcher]_vars

(***************************************************************************)
(* Properties of the element matcher.                                      *)
(***************************************************************************)
IsQuery == query.op = "smart_element_finder"

\* the tier of a text for a target, from the texts alone: 3 for a
\* case-insensitively equal text, 2 for one that contains the target, 1 for
\* the others
Tier(text, target) ==
  IF Lower(text) = Lower(target) THEN 3
  ELSE IF IsSubstring(Lower(target), Lower(text)) THEN 2
  ELSE 1

\* C24: matcher tier ordering.  In the list smart_element_finder returns,
\* every exact candidate precedes every contains candidate, which precedes
\* every partial candidate.
C24_TierOrdering ==
  IsQuery =>
    \A i, j \in 1..Len(matches) :
      i < j => Tier(matches[i].text, query.target) >= Tier(matches[j].text, query.target)

\* target "John" over "John", "Johnny" and "Joh": the exact match first
\* although it has the smallest area and, among its detections, came last
C24_Witness ==
  /\ IsQuery /\ query.target = John
  /\ Len(matches) = 3
  /\ matches[1].text = John /\ matches[2].text = Johnny /\ matches[3].text = Joh
  /\ matches[1].area < matches[2].area /\ matches[2].area < matches[3].area
  /\ detected_elements[3].text = John

\* C25: under the contact filter, a returned list with an exact match holds
\* exact matches only.
C25_ExactWinsOutright ==
  (IsQuery /\ query.element_type_filter = "contact"
     /\ \E i \in 1..Len(matches) : Tier(matches[i].text, query.target) = 3) =>
    \A j \in 1..Len(matches) : Tier(matches[j].text, query.target) = 3

\* C26: contact filter band exclusion.  No candidate returned under the
\* contact filter has its centre in the top 15% of the screen height or
\* outside the band from 25% to 85% of it.
C26_BandExclusion ==
  (IsQuery /\ query.element_type_filter = "contact") =>
    \A i \in 1..Len(matches) :
      LET y == matches[i].center[2] IN
      /\ 100 * y > 15 * query.screen_height
      /\ 100 * y >= 25 * query.screen_height
      /\ 100 * y <= 85 * query.screen_height

\* "Search" is on the screen in the search bar and in the list, and the one
\* in the search bar is not returned for the target "Search"
C26_Witness ==
  /\ IsQuery /\ query.element_type_filter = "contact" /\ query.target = Search
  /\ \E k \in 1..Len(detected_elements) :
       /\ detected_elements[k].text = Search
       /\ 100 * detected_elements[k].center[2] <= 15 * query.screen_height
  /\ Len(matches) = 1

\* C27: contact filter denylist.  No candidate returned under the contact
\* filter has a text that contains a term of the UI vocabulary.
C27_Denylist ==
  (IsQuery /\ query.element_type_filter = "contact") =>
    \A i \in 1..Len(matches) :
      ~(\E term \in {<<"s", "e", "a", "r", "c", "h">>, <<"n", "e", "w">>,
                     <<"c", "h", "a", "t">>, <<"m", "e", "s", "s", "a", "g", "e">>,
                     <<"t", "y", "p", "e">>} :
          IsSubstring(term, Lower(matches[i].text)))

\* C28: tie-break within a tier.  Among returned candidates of the same
\* tier, one with a larger area precedes one with a smaller area, and among
\* equal areas the one with the higher confidence comes first.
C28_TieBreak ==
  IsQuery =>
    \A i, j \in 1..Len(matches) :
      (i < j /\ Tier(matches[i].text, query.target) = Tier(matches[j].text, query.target)) =>
        \/ matches[i].area > matches[j].area
        \/ matches[i].area = matches[j].area
             /\ matches[i].confidence >= matches[j].confidence

\* three exact matches detected in another order: the larger area ahead of
\* the higher confidence, and the higher confidence ahead within equal areas
C28_Witness ==
  /\ IsQuery /\ Len(matches) = 3
  /\ \A i \in 1..3 : Tier(matches[i].text, query.target) = 3
  /\ matches[1].area = matches[2].area /\ matches[1].confidence > matches[2].confidence
  /\ matches[2].area > matches[3].area /\ matches[2].confidence < matches[3].confidence
  /\ detected_elements[1].center = matches[3].center
  /\ detected_elements[1].area = matches[3].area

(***************************************************************************)
(* The tap engine: TapCoordinateEngine, its calls made one after another.  *)
(***************************************************************************)
\* bounds of the tap engine's inputs
MaxTaps == 2          \* taps handed to the executor
MaxTapClock == 6      \* the clock up to which time passes between calls
ExecTicks == 1        \* the time execute_tap takes
MaxRandomDelay == 2   \* the longest human-like delay, half a second

\* int(n * fraction), the fraction in hundredths and n not negative
IntOf(n, hundredths) == (n * hundredths) \div 100

\* only the upper bound is applied
SafeClampUpper(v, lo, hi) == IF v <= hi THEN v ELSE hi

\* max(lo, min(v, hi)), lines 246-253 and 329-336
SafeClamp(v, lo, hi) ==
  LET upper == IF v <= hi THEN v ELSE hi
  IN IF lo >= upper THEN lo ELSE upper

\* the safety bounds applied to a point
SafePoint(x, y, screen_dimensions) ==
  <<SafeClamp(x, IntOf(screen_dimensions[1], safe_bounds.left),
              IntOf(screen_dimensions[1], safe_bounds.right)),
    SafeClamp(y, IntOf(screen_dimensions[2], safe_bounds.top),
              IntOf(screen_dimensions[2], safe_bounds.bottom))>>

\* TapCoordinate
TapCoordinateOf(point, confidence, source_text, randomization_applied) ==
  [x |-> point[1], y |-> point[2], confidence |-> confidence,
   source_text |-> source_text, randomization_applied |-> randomization_applied]

\* TextDetection with its centre
Detection(text, confidence, center_point) ==
  [text |-> text, confidence |-> confidence, center_point |-> center_point]

\* random.randint(a, b): the ends of the range stand for its values; an
\* empty range (a > b) has none, and randint raises ValueError
RandInt(a, b) == IF a > b THEN {} ELSE {a, b}

\* calculate_tap_coordinate(detection, screen_dimensions), with the offsets
\* random.randint drew
CalculateTapCoordinate(detection, screen_dimensions, enabled, offset_x, offset_y) ==
  LET base_x == detection.center_point[1]
      base_y == detection.center_point[2]
      tap_x == IF enabled THEN base_x + offset_x ELSE base_x
      tap_y == IF enabled THEN base_y + offset_y ELSE base_y
  IN TapCoordinateOf(SafePoint(tap_x, tap_y, screen_dimensions), detection.confidence,
                     detection.text, enabled)

\* OCRDetectionEngine.find_text(ocr_result, search_text, fuzzy)
FindText(detections, search_text, fuzzy) ==
  SelectSeq(detections,
            LAMBDA d : \/ Lower(search_text) = Lower(d.text)
                       \/ fuzzy /\ (\/ IsSubstring(Lower(search_text), Lower(d.text))
                                    \/ IsSubstring(Lower(d.text), Lower(search_text))))

\* max(matches, key=confidence): the first of the most confident
BestMatch(found_matches) ==
  found_matches[CHOOSE i \in 1..Len(found_matches) :
                  /\ \A j \in 1..Len(found_matches) :
                       found_matches[j].confidence <= found_matches[i].confidence
                  /\ \A j \in 1..(i - 1) :
                       found_matches[j].confidence < found_matches[i].confidence]

\* _execute_tap_with_timing(coordinate): the wait for the minimum interval,
\* the human-like delay, the executor's answer ("ok", "failed" or "raised")
\* after ExecTicks, and last_tap_time
ExecuteTapWithTiming(coordinate, outcome, random_delay) ==
  LET current_time == tap_clock
      time_since_last == current_time - last_tap_time
      waited == IF time_since_last < MinTapInterval
                THEN current_time + (MinTapInterval - time_since_last)
                ELSE current_time
      at == IF randomization_enabled THEN waited + random_delay ELSE waited
      done == at + ExecTicks
  IN /\ handed' = Append(handed, at)
     /\ tap_clock' = done
     /\ last_tap_time' = IF outcome = "raised" THEN last_tap_time ELSE done
     /\ tap_result' = [success |-> outcome = "ok", coordinate |-> <<coordinate>>,
                       error_message |-> IF outcome = "ok" THEN None ELSE outcome]

\* tap_text(ocr_result, target_text, screen_dimensions, fuzzy); a ValueError
\* of random.randint leaves calculate_tap_coordinate and tap_text uncaught
TapTextCall(detections, target_text, dims, fuzzy, outcome, random_delay) ==
  /\ Len(handed) < MaxTaps
  /\ tap_call' = [op |-> "tap_text", screen_dimensions |-> dims,
                  detections |-> detections, target_text |-> target_text]
  /\ LET found_matches == FindText(detections, target_text, fuzzy)
         offsets == IF randomization_enabled
                    THEN RandInt(0 - randomization_radius, randomization_radius)
                    ELSE {0}
     IN IF found_matches = <<>>
        THEN /\ tap_result' = [success |-> FALSE, coordinate |-> <<>>,
                               error_message |-> "not found"]
             /\ UNCHANGED <<tap_clock, last_tap_time, handed>>
        ELSE IF offsets = {}
        THEN /\ tap_result' = [success |-> FALSE, coordinate |-> <<>>,
                               error_message |-> "ValueError"]
             /\ UNCHANGED <<tap_clock, last_tap_time, handed>>
        ELSE \E offset_x \in offsets, offset_y \in offsets :
               ExecuteTapWithTiming(
                 CalculateTapCoordinate(BestMatch(found_matches), dims,
                                        randomization_enabled, offset_x, offset_y),
                 outcome, random_delay)
  /\ UNCHANGED <<randomization_enabled, randomization_radius, safe_bounds>>
  /\ UNCHANGED <<engineState, cacheVars, matcherVars>>

\* tap_coordinate(x, y, screen_dimensions)
TapCoordinateCall(x, y, screen_dimensions, outcome, random_delay) ==
  /\ Len(handed) < MaxTaps
  /\ tap_call' = [op |-> "tap_coordinate", screen_dimensions |-> screen_dimensions]
  /\ ExecuteTapWithTiming(
       TapCoordinateOf(SafePoint(x, y, screen_dimensions), 100, "manual_coordinate", FALSE),
       outcome, random_delay)
  /\ UNCHANGED <<randomization_enabled, randomization_radius, safe_bounds>>
  /\ UNCHANGED <<engineState, cacheVars, matcherVars>>

\* configure_randomization(enabled, radius): both are assigned as given
ConfigureRandomization(enabled, radius) ==
  /\ <<randomization_enabled, randomization_radius>> # <<enabled, radius>>
  /\ randomization_enabled' = enabled
  /\ randomization_radius' = radius
  /\ tap_call' = [op |-> "configure_randomization"]
  /\ UNCHANGED <<tap_clock, last_tap_time, safe_bounds, tap_result, handed>>
  /\ UNCHANGED <<engineState, cacheVars, matcherVars>>

\* configure_safety_bounds(left, right, top, bottom): assigned as given
ConfigureSafetyBounds(left, right, top, bottom) ==
  /\ safe_bounds # [left |-> left, right |-> right, top |-> top, bottom |-> bottom]
  /\ safe_bounds' = [left |-> left, right |-> right, top |-> top, bottom |-> bottom]
  /\ tap_call' = [op |-> "configure_safety_bounds"]
  /\ UNCHANGED <<tap_clock, last_tap_time, randomization_enabled,
                 randomization_radius, tap_result, handed>>
  /\ UNCHANGED <<engineState, cacheVars, matcherVars>>

\* time passes between two calls
TapTick ==
  /\ tap_clock < MaxTapClock
  /\ tap_clock' = tap_clock + 1
  /\ UNCHANGED <<last_tap_time, randomization_enabled, randomization_radius,
                 safe_bounds, tap_result, tap_call, handed>>
  /\ UNCHANGED <<engineState, cacheVars, matcherVars>>

\* The engine as constructed: default radius and safe bounds; two screen
\* sizes; the executor answers "ok", "failed" or "raised".
NextTap ==
  \/ \E detections \in {<<Detection(John, 90, <<500, 800>>)>>,
                         <<Detection(John, 90, <<500, 800>>),
                           Detection(Johnny, 95, <<1024, 190>>)>>},
        target_text \in {John, Search},
        screen_dimensions \in {<<1080, 1920>>, <<720, 1600>>}, fuzzy \in BOOLEAN,
        outcome \in {"ok", "failed", "raised"}, random_delay \in 1..MaxRandomDelay :
       TapTextCall(detections, target_text, screen_dimensions, fuzzy, outcome, random_delay)
  \/ \E point \in {<<500, 800>>, <<0 - 10, 5000>>, <<5000, 0 - 3>>, <<54, 1728>>},
        screen_dimensions \in {<<1080, 1920>>, <<720, 1600>>},
        outcome \in {"ok", "failed", "raised"}, random_delay \in 1..MaxRandomDelay :
       TapCoordinateCall(point[1], point[2], screen_dimensions, outcome, random_delay)
  \/ \E enabled \in BOOLEAN : ConfigureRandomization(enabled, RandomizationRadius)
  \/ TapTick

SpecTap == InitObjects /\ [][NextTap]_vars

\* The engine with its configuration calls, on one screen size.
NextTapConfig ==
  \/ \E target_text \in {John, Search}, outcome \in {"ok", "failed"} :
       TapTextCall(<<Detection(John, 90, <<500, 800>>)>>, target_text, <<1080, 1920>>,
                   TRUE, outcome, 1)
  \/ \E point \in {<<500, 800>>, <<5000, 0 - 3>>}, outcome \in {"ok", "failed"} :
       TapCoordinateCall(point[1], point[2], <<1080, 1920>>, outcome, 1)
  \/ \E enabled \in BOOLEAN, radius \in {RandomizationRadius, 0 - 1} :
       ConfigureRandomization(enabled, radius)
  \/ \E b \in {<<SafeLeft, SafeRight, SafeTop, SafeBottom>>, <<60, 40, SafeTop, SafeBottom>>} :
       ConfigureSafetyBounds(b[1], b[2], b[3], b[4])
  \/ TapTick

SpecTapConfig == InitObjects /\ [][NextTapConfig]_vars

(***************************************************************************)
(* The debug agent: DebugMobileAgentX.find_text_element on the elements    *)
(* detect_text_with_ocr keeps.                                             *)
(***************************************************************************)
\* elements of one reading
MaxDebugElements == 3

\* the smallest area that earns the size bonus by default, and the
\* confidence floor of detect_text_with_ocr in hundredths
DefaultMinArea == 500
DebugMinConfidence == 40

Jhon == <<"J", "h", "o", "n">>

\* an element of detect_text_with_ocr (lines 191-197); match_type and
\* search_score are the keys find_text_element adds to it
DebugElement(text, area, confidence) ==
  [text |-> text, confidence |-> confidence, area |-> area,
   match_type |-> "none", search_score |-> 0]

\* detect_text_with_ocr lines 165-200: the readings above the confidence
\* floor with more than one character, sorted by confidence and area
DetectedElements(results) ==
  LET elements == SelectSeq(results,
                            LAMBDA e : e.confidence > DebugMinConfidence
                                       /\ Len(Strip(e.text)) > 1)
  IN SortDesc([i \in 1..Len(elements) |->
                 [k |-> <<elements[i].confidence, elements[i].area>>, v |-> elements[i]]])

\* find_text_element lines 258-311 on the elements: every matching element
\* gets its match_type and its search_score (confidence * max(1, area/1000)
\* * type multiplier * 1.5 for area >= min_area, here times 20000), and the
\* matches are sorted by search_score, descending and stable
FindTextElement(elements, target_text, min_area) ==
  LET target_lower == Lower(target_text)
      CharSet(cs) == {cs[i] : i \in 1..Len(cs)}
      TypeOf(text_lower) ==
        IF target_lower = text_lower THEN "exact"
        ELSE IF IsSubstring(target_lower, text_lower) THEN "contains"
        ELSE IF IsSubstring(text_lower, target_lower) /\ Len(text_lower) > 2 THEN "partial"
        ELSE IF /\ Len(target_lower) > 3 /\ Len(text_lower) > 3
                /\ LET common == Cardinality(CharSet(target_lower) \cap CharSet(text_lower))
                       need == IF 30 <= 6 * Len(target_lower) THEN 30
                               ELSE 6 * Len(target_lower)
                   IN 10 * common >= need
             THEN "fuzzy"
        ELSE "none"
      Multiplier(match_type) ==
        CASE match_type = "exact" -> 20
          [] match_type = "contains" -> 15
          [] match_type = "partial" -> 12
          [] OTHER -> 8
      Score(e, match_type) ==
        e.confidence * (IF e.area >= 1000 THEN e.area ELSE 1000) * Multiplier(match_type)
          * (IF e.area >= min_area THEN 3 ELSE 2)
      marked == [i \in 1..Len(elements) |->
                   LET match_type == TypeOf(Lower(elements[i].text))
                   IN IF match_type = "none" THEN elements[i]
                      ELSE [elements[i] EXCEPT !.match_type = match_type,
                                               !.search_score = Score(elements[i], match_type)]]
      found_matches == SelectSeq(marked, LAMBDA e : TypeOf(Lower(e.text)) # "none")
  IN [elements |-> marked,
      matches |-> SortDesc([i \in 1..Len(found_matches) |->
                              [k |-> <<found_matches[i].search_score>>,
                               v |-> found_matches[i]]])]

\* detect_text_with_ocr() on a captured screenshot
DetectTextWithOcr(results) ==
  /\ debug_elements' = DetectedElements(results)
  /\ debug_elements' # debug_elements
  /\ debug_call' = [op |-> "detect_text_with_ocr"]
  /\ best' = <<>>
  /\ UNCHANGED <<current_screenshot, detected_elements, matches, query, queries, analyses>>
  /\ UNCHANGED <<engineState, cacheVars, tapVars>>

\* find_text_element(target_text, min_area): OCR first when no elements are
\* held (lines 255-256), then the best match or None
FindTextElementCall(results, target_text, min_area) ==
  /\ \E r \in {FindTextElement(IF debug_elements = <<>> THEN DetectedElements(results)
                               ELSE debug_elements, target_text, min_area)} :
       /\ debug_elements' = r.elements
       /\ best' = IF r.matches = <<>> THEN <<>> ELSE <<r.matches[1]>>
  /\ debug_call' = [op |-> "find_text_element", target_text |-> target_text,
                    min_area |-> min_area]
  /\ UNCHANGED <<current_screenshot, detected_elements, matches, query, queries, analyses>>
  /\ UNCHANGED <<engineState, cacheVars, tapVars>>

\* what the reader reports: up to MaxDebugElements distinct elements
DebugReadings ==
  LET elems == {DebugElement(John, 1000, 90), DebugElement(John, 6000, 45),
                DebugElement(Johnny, 5000, 95), DebugElement(Joh, 3000, 99),
                DebugElement(Jhon, 400, 80), DebugElement(Search, 3000, 30)}
  IN UNION {{rs \in [1..n -> elems] : \A i, j \in 1..n : rs[i] = rs[j] => i = j} :
              n \in 0..MaxDebugElements}

NextDebug ==
  \/ \E results \in DebugReadings : DetectTextWithOcr(results)
  \/ \E results \in DebugReadings, target_text \in {John, Search},
        min_area \in {DefaultMinArea, 200} :
       FindTextElementCall(results, target_text, min_area)

SpecDebug == InitObjects /\ [][NextDebug]_vars

(***************************************************************************)
(* The fatigue of HumanBehaviorEngine, update_fatigue called on its own.   *)
(***************************************************************************)
\* calls of update_fatigue the fatigue model follows
MaxFatigueCalls == 120

\* HumanBehaviorEngine.update_fatigue(), called on its own
UpdateFatigue ==
  /\ actions_count < MaxFatigueCalls
  /\ actions_count' = actions_count + 1
  /\ fatigue_multiplier' = FatigueMultiplier(actions_count + 1, fatigue_multiplier)
  /\ UNCHANGED <<now, is_running, current_sequence, stats, taskVars, stops, histVars>>
  /\ UNCHANGED <<cacheVars, matcherVars, tapVars>>

\* A fresh HumanBehaviorEngine whose update_fatigue is called again and again.
NextFatigue == UpdateFatigue

SpecFatigue == InitObjects /\ [][NextFatigue]_vars

(***************************************************************************)
(* Properties of the tap engine.                                           *)
(***************************************************************************)
\* C29: safe-zone clamp.  The coordinate produced by calculate_tap_coordinate
\* (through tap_text) and by tap_coordinate satisfies int(0.05*W) <= x <=
\* int(0.95*W) and int(0.10*H) <= y <= int(0.90*H); on 1080 x 1920 that is x
\* in 54..1026 and y in 192..1728.
C29_SafeZoneClamp ==
  (tap_call.op \in {"tap_text", "tap_coordinate"} /\ tap_result.coordinate # <<>>) =>
    LET c == tap_result.coordinate[1]
        W == tap_call.screen_dimensions[1]
        H == tap_call.screen_dimensions[2]
    IN /\ (5 * W) \div 100 <= c.x /\ c.x <= (95 * W) \div 100
       /\ (10 * H) \div 100 <= c.y /\ c.y <= (90 * H) \div 100
       /\ (W = 1080 /\ H = 1920) => (c.x \in 54..1026 /\ c.y \in 192..1728)

\* a point left of and below a 1080 x 1920 screen was tapped at (54, 1728)
C29_Witness ==
  /\ tap_call.op = "tap_coordinate"
  /\ tap_call.screen_dimensions = <<1080, 1920>>
  /\ tap_result.coordinate # <<>>
  /\ tap_result.coordinate[1].x = 54 /\ tap_result.coordinate[1].y = 1728
  /\ \E i \in 1..Len(handed) : TRUE

\* C30: minimum inter-tap interval.  Each tap is handed to the executor at
\* least min_tap_interval after the previous one was.
C30_MinimumTapInterval ==
  \A i \in 2..Len(handed) : handed[i] - handed[i - 1] >= MinTapInterval

\* C36: fingerprint partitioning.  find_cached_position never returns an
\* entry whose screen_hash differs from the hash of the screen image passed
\* to that find, with fuzzy matching or without.
C36_FingerprintPartitioning ==
  (IsFind /\ found # <<>>) => found[1].screen_hash = HashScreen(last_call.image)

\* C37: tier agreement on hit counts.  With a database connection, every key
\* that is in the memory tier and in the database has the same hit_count in
\* both, after any stores, finds, context changes and clean-ups.
C37_TierAgreement ==
  connection =>
    \A i \in 1..Len(memory_cache) : \A r \in db_cache :
      KeyOf(r) = memory_cache[i].key => r.hit_count = memory_cache[i].pos.hit_count

\* a second hit on an entry that both tiers hold
C37_Witness ==
  /\ connection /\ IsFind /\ found # <<>> /\ found[1].hit_count = 2
  /\ \E i \in 1..Len(memory_cache) : \E r \in db_cache :
       KeyOf(r) = memory_cache[i].key /\ memory_cache[i].pos = found[1]

C39_NoImageUnmet ==
  \A s \in SeqIds :
    ( /\ pc[s] = "ret" /\ obs[s] = "no_image"
      /\ Cur(s).action_type = CONDITION /\ Cur(s).pcond # NoCondition
      /\ ~Cur(s).pcond.negate ) =>
      frame[s].ret = Outcome(FALSE, "Condition not met")

\* the configuration the tap engine holds is one a fail-fast check accepts
ValidConfiguration ==
  /\ randomization_radius >= 0
  /\ 0 <= safe_bounds.left /\ safe_bounds.left < safe_bounds.right
  /\ safe_bounds.right <= 100
  /\ 0 <= safe_bounds.top /\ safe_bounds.top < safe_bounds.bottom
  /\ safe_bounds.bottom <= 100

\* C31: configuration errors fail fast.  Safe bounds with left >= right, top
\* >= bottom or values outside [0, 1], and a negative randomization radius,
\* are rejected when they are configured: the engine never holds such a
\* configuration, no tap is planned under one, and no ValueError surfaces
\* from calculate_tap_coordinate.
C31_ConfigurationFailsFast ==
  /\ ValidConfiguration
  /\ tap_call.op \in {"tap_text", "tap_coordinate"} =>
       tap_result.error_message # "ValueError"

\* C33: tap on text uses the matcher's winner.  When the detections contain
\* an exact (case-insensitive) match for the target text, tap_text taps a
\* detection whose text is the target, whatever the confidence of the
\* contains/partial matches.
C33_TapTextExactWins ==
  ( /\ tap_call.op = "tap_text" /\ tap_result.coordinate # <<>>
    /\ \E k \in 1..Len(tap_call.detections) :
         Lower(tap_call.detections[k].text) = Lower(tap_call.target_text) ) =>
    Lower(tap_result.coordinate[1].source_text) = Lower(tap_call.target_text)

\* C32: fatigue multiplier.  After n calls of update_fatigue on a fresh
\* HumanBehaviorEngine the multiplier is 1.0 when n <= 50 and 1.0 + 0.02 *
\* (n - 50) when n > 50 (100 and 100 + 2 * (n - 50) in hundredths); it is
\* never below 1.0 and no call decreases it.
C32_FatigueMultiplier ==
  /\ [](/\ actions_count <= 50 => fatigue_multiplier = 100
        /\ actions_count > 50 => fatigue_multiplier = 100 + 2 * (actions_count - 50)
        /\ fatigue_multiplier >= 100)
  /\ [][fatigue_multiplier' >= fatigue_multiplier]_vars

\* sixty calls were made: the multiplier is 1.2
C32_Witness == actions_count = 60 /\ fatigue_multiplier = 120

\* C34: best match of find_text_element.  Whenever the detected elements
\* contain an exact (case-insensitive equal) match for the target,
\* find_text_element returns an exact match, whatever the areas and
\* confidences of the other matches.
C34_ExactMatchReturned ==
  ( /\ debug_call.op = "find_text_element"
    /\ \E i \in 1..Len(debug_elements) :
         Lower(debug_elements[i].text) = Lower(debug_call.target_text) ) =>
    (best # <<>> /\ Lower(best[1].text) = Lower(debug_call.target_text))

\* C35: a failed re-verification is stable.  When find_cached_position
\* returns a miss because the entry it found failed the bounds check, the
\* same find repeated at once (same label, same screen, no store and no time
\* in between) returns a miss too.
C35_FailedVerificationStable ==
  [][( /\ IsFind /\ probed # <<>> /\ found = <<>>
       /\ cache_stats'.total_requests = cache_stats.total_requests + 1
       /\ last_call' = last_call ) => found' = <<>>]_vars


====
